---- MODULE Spec2Model ----
(***************************************************************************)
(* Candidate tracker of utils_v2/tracker.py: the Excel file                *)
(* Tracker/Candidates_Tracker.xlsx of one position folder, and the         *)
(* functions check_candidate_status_in_tracker and update_tracker_excel    *)
(* that read and rewrite it.                                               *)
(*                                                                         *)
(* A text value is a sequence of one-character strings, so that strip(),   *)
(* lower(), re.sub() and endswith() are computed and not assumed.  A cell  *)
(* that pandas reads as NaN is the one-element sequence NaN.               *)
(***************************************************************************)
EXTENDS Integers, Sequences, FiniteSets, TLC

\* ------------------------------------------------------------------ text

Range(s) == {s[i] : i \in 1..Len(s)}

\* sequence s without its elements that are in set S, order kept
Without(s, S) == SelectSeq(s, LAMBDA x : x \notin S)

\* list.remove(x) for a list that holds x at most once
Remove(s, x) == Without(s, {x})

\* list.index(x)
IndexOf(s, x) == CHOOSE i \in 1..Len(s) : s[i] = x /\ \A j \in 1..(i - 1) : s[j] # x

\* list.insert(i, x) with a 0-based position i, clamped to the list's length
InsertAt(s, i, x) ==
    LET k == IF i > Len(s) THEN Len(s) ELSE i
    IN  SubSeq(s, 1, k) \o <<x>> \o SubSeq(s, k + 1, Len(s))

Whitespace == {" ", "\t"}

LowerOf ==
    ("A" :> "a") @@ ("B" :> "b") @@ ("C" :> "c") @@ ("D" :> "d") @@ ("E" :> "e") @@
    ("F" :> "f") @@ ("G" :> "g") @@ ("H" :> "h") @@ ("I" :> "i") @@ ("J" :> "j") @@
    ("K" :> "k") @@ ("L" :> "l") @@ ("M" :> "m") @@ ("N" :> "n") @@ ("O" :> "o") @@
    ("P" :> "p") @@ ("Q" :> "q") @@ ("R" :> "r") @@ ("S" :> "s") @@ ("T" :> "t") @@
    ("U" :> "u") @@ ("V" :> "v") @@ ("W" :> "w") @@ ("X" :> "x") @@ ("Y" :> "y") @@
    ("Z" :> "z")

\* str.lower()
Lower(s) == [i \in 1..Len(s) |-> IF s[i] \in DOMAIN LowerOf THEN LowerOf[s[i]] ELSE s[i]]

RECURSIVE LStrip(_)
LStrip(s) == IF s # <<>> /\ Head(s) \in Whitespace THEN LStrip(Tail(s)) ELSE s

RECURSIVE RStrip(_)
RStrip(s) ==
    IF s # <<>> /\ s[Len(s)] \in Whitespace THEN RStrip(SubSeq(s, 1, Len(s) - 1)) ELSE s

\* str.strip()
Strip(s) == RStrip(LStrip(s))

\* re.sub(r'[\s\-\(\)]', '', s)
StripPhoneChars(s) == Without(s, Whitespace \cup {"-", "(", ")"})

\* str.endswith(suffix)
EndsWith(s, suffix) ==
    /\ Len(s) >= Len(suffix)
    /\ SubSeq(s, Len(s) - Len(suffix) + 1, Len(s)) = suffix

\* the float NaN that pandas puts where a cell is empty
NaN == <<"<NaN>">>

\* str(x) of a cell: NaN prints as 'nan'
Str(v) == IF v = NaN THEN <<"n", "a", "n">> ELSE v

\* pd.notna(x)
NotNa(v) == v # NaN

\* ------------------------------------------------------------- literals

NotFoundLower == <<"n", "o", "t", " ", "f", "o", "u", "n", "d">>
NanLower == <<"n", "a", "n">>
NoneLower == <<"n", "o", "n", "e">>

\* ['not found', ''], the values a submitted field is screened against
SubmittedSentinels == {NotFoundLower, <<>>}

\* ['not found', '', 'nan', 'none'], the values a stored field is screened against
StoredSentinels == {NotFoundLower, <<>>, NanLower, NoneLower}

NotFound == <<"N", "o", "t", " ", "F", "o", "u", "n", "d">>
Unknown == <<"U", "n", "k", "n", "o", "w", "n">>
Shortlisted == <<"S", "h", "o", "r", "t", "l", "i", "s", "t", "e", "d">>
Rejected == <<"R", "e", "j", "e", "c", "t", "e", "d">>
ShortlistedLower == <<"s", "h", "o", "r", "t", "l", "i", "s", "t", "e", "d">>
RejectedLower == <<"r", "e", "j", "e", "c", "t", "e", "d">>
UniqueProfile == <<"U", "n", "i", "q", "u", "e", " ", "P", "r", "o", "f", "i", "l", "e">>
DuplicateProfile ==
    <<"D", "u", "p", "l", "i", "c", "a", "t", "e", " ", "P", "r", "o", "f", "i", "l", "e">>
DuplicateProfileLower ==
    <<"d", "u", "p", "l", "i", "c", "a", "t", "e", " ", "p", "r", "o", "f", "i", "l", "e">>

SameVendorSuffix == <<"_", "s", "a", "m", "e", "_", "v", "e", "n", "d", "o", "r">>
DifferentVendorSuffix ==
    <<"_", "d", "i", "f", "f", "e", "r", "e", "n", "t", "_", "v", "e", "n", "d", "o", "r">>
EmailKey == <<"e", "m", "a", "i", "l">>
NameAndPhoneKey == <<"n", "a", "m", "e", "_", "a", "n", "d", "_", "p", "h", "o", "n", "e">>
NameAndVendorKey == <<"n", "a", "m", "e", "_", "a", "n", "d", "_", "v", "e", "n", "d", "o", "r">>
AlreadyExists == <<"a", "l", "r", "e", "a", "d", "y", "_", "e", "x", "i", "s", "t", "s">>
StatusUpdated == <<"s", "t", "a", "t", "u", "s", "_", "u", "p", "d", "a", "t", "e", "d">>
Converted == <<"C", "o", "n", "v", "e", "r", "t", "e", "d">>

first_columns == <<"Vendor_Name", "Profile_Shared_Date", "Profile_Remark">>

manual_columns ==
    <<"R1_Schedule_Date", "R1_Panel_Name", "R1_Feedback", "R1_Status",
      "R2_Schedule_Date", "R2_Panel_Name", "R2_Feedback", "R2_Status",
      "CV_Conversion_Status", "CV_Converted_Path">>

\* ------------------------------------------------------ dict, DataFrame

\* a dict is its keys in insertion order and its values
EmptyDict == [keys |-> <<>>, val |-> <<>>]

\* d[k] = v
DictSet(d, k, v) ==
    IF k \in DOMAIN d.val
    THEN [d EXCEPT !.val[k] = v]
    ELSE [keys |-> Append(d.keys, k), val |-> (k :> v) @@ d.val]

\* d.get(k, default)
DictGet(d, k, default) == IF k \in DOMAIN d.val THEN d.val[k] ELSE default

\* a DataFrame is its columns in order and its rows, each a function on the
\* set of the columns
EmptyFrame == [cols |-> <<>>, rows |-> <<>>]

\* df.empty
IsEmpty(df) == df.cols = <<>> \/ df.rows = <<>>

HasCol(df, c) == c \in Range(df.cols)

\* df[cols]: the columns of the list, in its order
Select(df, cols) ==
    LET kept == Range(cols)
    IN  [cols |-> cols,
         rows |-> IF kept = Range(df.cols) THEN df.rows
                  ELSE [i \in 1..Len(df.rows) |-> [c \in kept |-> df.rows[i][c]]]]

\* df[c] = v for a column c that may be new: every row gets v
SetColumn(df, c, v) ==
    [cols |-> IF HasCol(df, c) THEN df.cols ELSE Append(df.cols, c),
     rows |-> [i \in 1..Len(df.rows) |-> (c :> v) @@ df.rows[i]]]

\* for c in cols: if c not in df.columns: df[c] = v
AddMissingColumns(df, cols, v) ==
    LET old == Range(df.cols)
        missing == SelectSeq(cols, LAMBDA c : c \notin old)
        filled == [c \in Range(missing) |-> v]
    IN  IF missing = <<>> THEN df
        ELSE [cols |-> df.cols \o missing,
              rows |-> [i \in 1..Len(df.rows) |-> df.rows[i] @@ filled]]

\* row.get(c, default) on a row of df
RowGet(df, row, c, default) == IF HasCol(df, c) THEN row[c] ELSE default

\* ------------------------------------------------------------ the file

\* None, where the code returns no status
NoneValue == <<"<None>">>

\* strings that pandas.read_excel turns into NaN, beside the empty cell
NaStrings ==
    {<<>>, <<"n", "a", "n">>, <<"N", "a", "N">>, <<"N", "o", "n", "e">>,
     <<"N", "A">>, <<"N", "/", "A">>, <<"n", "/", "a">>,
     <<"n", "u", "l", "l">>, <<"N", "U", "L", "L">>}

\* a cell as pd.read_excel returns it
ReadCell(v) == IF v \in NaStrings THEN NaN ELSE v

\* os.path.exists(excel_path)
Exists(f) == f.state # "missing"

\* pd.read_excel(excel_path) of a file that parses
ReadExcel(f) ==
    [cols |-> f.cols,
     rows |-> [i \in 1..Len(f.rows) |->
                 [c \in DOMAIN f.rows[i] |-> ReadCell(f.rows[i][c])]]]

\* df.to_excel(excel_path, index=False): NaN is written as an empty cell
ToExcel(df) ==
    [state |-> "ok",
     cols |-> df.cols,
     rows |-> [i \in 1..Len(df.rows) |->
                 [c \in DOMAIN df.rows[i] |->
                    IF df.rows[i][c] = NaN THEN <<>> ELSE df.rows[i][c]]]]

MissingFile == [state |-> "missing", cols |-> <<>>, rows |-> <<>>]

\* a file at excel_path that pd.read_excel cannot parse
CorruptFile == [state |-> "corrupt", cols |-> <<>>, rows |-> <<>>]

\* --------------------------------------------------- identity matching

\* str(x).strip().lower() if x and str(x).strip().lower() not in ['not found', ''] else None
\* (None and '' are both false in every test the code makes; both are <<>> here)
NormSubmitted(v) ==
    LET n == Lower(Strip(Str(v)))
    IN  IF v # <<>> /\ n \notin SubmittedSentinels THEN n ELSE <<>>

\* contact_number_norm, with re.sub applied when it is not None
NormSubmittedPhone(v) == StripPhoneChars(NormSubmitted(v))

NormVendorCaseSensitive(v) == IF v # <<>> THEN Strip(Str(v)) ELSE <<>>

\* str(vendor_name).strip().lower() if vendor_name else ""
NormVendor(v) == IF v # <<>> THEN Lower(Strip(Str(v))) ELSE <<>>

\* df[col].astype(str).str.strip().str.lower(), one cell
NormStored(v) == Lower(Strip(Str(v)))

\* df_contact_norm.apply(lambda x: re.sub(...) if x not in [sentinels] else x), one cell
NormStoredPhone(v) ==
    LET n == NormStored(v)
    IN  IF n \notin StoredSentinels THEN StripPhoneChars(n) ELSE n

\* str(row['Vendor_Name']).strip().lower() if pd.notna(row['Vendor_Name']) else ""
ExistingVendor(row) ==
    IF NotNa(row["Vendor_Name"]) THEN Lower(Strip(Str(row["Vendor_Name"]))) ELSE <<>>

Indices(df) == [i \in 1..Len(df.rows) |-> i]

EmailMatchesAnyValue(df, email_id_norm) ==
    IF email_id_norm # <<>> /\ HasCol(df, "Email_ID")
    THEN SelectSeq(Indices(df), LAMBDA i : NormStored(df.rows[i]["Email_ID"]) = email_id_norm)
    ELSE <<>>

\* matching_rows of the email tier, the row indices in order: the rows whose
\* normalized email is the submitted one, when that is among valid_emails
\* (the stored emails that are no sentinel)
EmailMatches(df, email_id_norm) ==
    IF email_id_norm # <<>> /\ HasCol(df, "Email_ID") /\ email_id_norm \notin StoredSentinels
    THEN SelectSeq(Indices(df), LAMBDA i : NormStored(df.rows[i]["Email_ID"]) = email_id_norm)
    ELSE <<>>

NamePhoneMatchesOr(df, candidate_name_norm, contact_number_norm) ==
    IF candidate_name_norm # <<>> /\ contact_number_norm # <<>>
       /\ HasCol(df, "Candidate_Name") /\ HasCol(df, "Contact_Number")
    THEN SelectSeq(Indices(df), LAMBDA i :
            /\ NormStored(df.rows[i]["Candidate_Name"]) \notin StoredSentinels
            /\ NormStoredPhone(df.rows[i]["Contact_Number"]) \notin StoredSentinels
            /\ \/ NormStored(df.rows[i]["Candidate_Name"]) = candidate_name_norm
               \/ NormStoredPhone(df.rows[i]["Contact_Number"]) = contact_number_norm)
    ELSE <<>>

\* matching_rows of the name + phone tier: the valid_rows (name and phone no
\* sentinel) that are equal to the submission on both fields
NamePhoneMatches(df, candidate_name_norm, contact_number_norm) ==
    IF candidate_name_norm # <<>> /\ contact_number_norm # <<>>
       /\ HasCol(df, "Candidate_Name") /\ HasCol(df, "Contact_Number")
       /\ candidate_name_norm \notin StoredSentinels
       /\ contact_number_norm \notin StoredSentinels
    THEN SelectSeq(Indices(df), LAMBDA i :
            /\ NormStored(df.rows[i]["Candidate_Name"]) = candidate_name_norm
            /\ NormStoredPhone(df.rows[i]["Contact_Number"]) = contact_number_norm)
    ELSE <<>>

NameMatchesWithPhone(df, candidate_name_norm, contact_number_norm, vendor_name_norm) ==
    IF candidate_name_norm # <<>> /\ contact_number_norm # <<>> /\ vendor_name_norm # <<>>
       /\ HasCol(df, "Candidate_Name") /\ HasCol(df, "Vendor_Name")
       /\ candidate_name_norm \notin StoredSentinels
    THEN SelectSeq(Indices(df), LAMBDA i :
            NormStored(df.rows[i]["Candidate_Name"]) = candidate_name_norm)
    ELSE <<>>

\* matching_rows of the name + vendor fallback: the valid_rows (name no
\* sentinel) with the submitted name
NameMatches(df, candidate_name_norm, contact_number_norm, vendor_name_norm) ==
    IF candidate_name_norm # <<>> /\ contact_number_norm = <<>> /\ vendor_name_norm # <<>>
       /\ HasCol(df, "Candidate_Name") /\ HasCol(df, "Vendor_Name")
       /\ candidate_name_norm \notin StoredSentinels
    THEN SelectSeq(Indices(df), LAMBDA i :
            NormStored(df.rows[i]["Candidate_Name"]) = candidate_name_norm)
    ELSE <<>>

AnyVendorRows(df, matching, vendor_name_norm) == matching

\* the loop "for idx, row in matching_rows.iterrows()": the rows of the submitting vendor
SameVendorRows(df, matching, vendor_name_norm) ==
    IF HasCol(df, "Vendor_Name")
    THEN SelectSeq(matching, LAMBDA i :
            /\ vendor_name_norm # <<>>
            /\ ExistingVendor(df.rows[i]) # <<>>
            /\ vendor_name_norm = ExistingVendor(df.rows[i]))
    ELSE <<>>

Found(df, i, key, suffix) ==
    [exists |-> TRUE,
     current_status |-> RowGet(df, df.rows[i], "Resume_Screening_Status", Unknown),
     duplicate_reason |-> key \o suffix,
     profile_remark |-> RowGet(df, df.rows[i], "Profile_Remark", <<>>)]

NotInTracker ==
    [exists |-> FALSE, current_status |-> NoneValue,
     duplicate_reason |-> <<>>, profile_remark |-> <<>>]

ReportedFirstMatch(matching, same) == matching[1]

\* same_vendor_row: the row whose status and remark a same-vendor match
\* reports is the first matching row of the submitting vendor
ReportedSameVendorRow(matching, same) == same[1]

CheckTiersVendorFirst(df, candidate_details, vendor_name) ==
    LET email_id_norm == NormSubmitted(DictGet(candidate_details, "Email_ID", <<>>))
        candidate_name_norm == NormSubmitted(DictGet(candidate_details, "Candidate_Name", <<>>))
        contact_number_norm ==
            NormSubmittedPhone(DictGet(candidate_details, "Contact_Number", <<>>))
        vendor_name_norm == NormVendor(vendor_name)
        byEmail == EmailMatches(df, email_id_norm)
        byPhone == NamePhoneMatches(df, candidate_name_norm, contact_number_norm)
        byName == NameMatches(df, candidate_name_norm, contact_number_norm, vendor_name_norm)
        sameE == SameVendorRows(df, byEmail, vendor_name_norm)
        sameP == SameVendorRows(df, byPhone, vendor_name_norm)
        sameN == SameVendorRows(df, byName, vendor_name_norm)
    IN  IF sameE # <<>>
        THEN Found(df, ReportedSameVendorRow(byEmail, sameE), EmailKey, SameVendorSuffix)
        ELSE IF sameP # <<>>
        THEN Found(df, ReportedSameVendorRow(byPhone, sameP), NameAndPhoneKey,
                   SameVendorSuffix)
        ELSE IF byEmail # <<>>
        THEN Found(df, byEmail[1], EmailKey, DifferentVendorSuffix)
        ELSE IF byPhone # <<>>
        THEN Found(df, byPhone[1], NameAndPhoneKey, DifferentVendorSuffix)
        ELSE IF byName # <<>> /\ sameN # <<>>
        THEN Found(df, ReportedSameVendorRow(byName, sameN), NameAndVendorKey,
                   SameVendorSuffix)
        ELSE NotInTracker

\* the three tiers of check_candidate_status_in_tracker on a loaded table
CheckTiers(df, candidate_details, vendor_name) ==
    LET email_id_norm == NormSubmitted(DictGet(candidate_details, "Email_ID", <<>>))
        candidate_name_norm == NormSubmitted(DictGet(candidate_details, "Candidate_Name", <<>>))
        contact_number_norm ==
            NormSubmittedPhone(DictGet(candidate_details, "Contact_Number", <<>>))
        vendor_name_norm == NormVendor(vendor_name)
        byEmail == EmailMatches(df, email_id_norm)
        byPhone == NamePhoneMatches(df, candidate_name_norm, contact_number_norm)
        byName == NameMatches(df, candidate_name_norm, contact_number_norm, vendor_name_norm)
        sameE == SameVendorRows(df, byEmail, vendor_name_norm)
        sameP == SameVendorRows(df, byPhone, vendor_name_norm)
        sameN == SameVendorRows(df, byName, vendor_name_norm)
    IN  IF byEmail # <<>>
        THEN IF sameE # <<>>
             THEN Found(df, ReportedSameVendorRow(byEmail, sameE), EmailKey, SameVendorSuffix)
             ELSE Found(df, byEmail[1], EmailKey, DifferentVendorSuffix)
        ELSE IF byPhone # <<>>
        THEN IF sameP # <<>>
             THEN Found(df, ReportedSameVendorRow(byPhone, sameP), NameAndPhoneKey,
                        SameVendorSuffix)
             ELSE Found(df, byPhone[1], NameAndPhoneKey, DifferentVendorSuffix)
        ELSE IF byName # <<>> /\ sameN # <<>>
        THEN Found(df, ReportedSameVendorRow(byName, sameN), NameAndVendorKey,
                   SameVendorSuffix)
        ELSE NotInTracker

\* check_candidate_status_in_tracker: (exists, current_status, duplicate_reason, profile_remark)
check_candidate_status_in_tracker(f, candidate_details, vendor_name) ==
    LET df == ReadExcel(f)
    IN  IF ~Exists(f) THEN NotInTracker
        ELSE IF f.state = "corrupt" THEN NotInTracker
        ELSE IF IsEmpty(df) THEN NotInTracker
        ELSE CheckTiers(df, candidate_details, vendor_name)

\* ------------------------------------------------- update_tracker_excel

DesiredStatusShortlisted(tracker_type) == Shortlisted

\* "Shortlisted" if tracker_type.lower() == "shortlisted" else "Rejected"
DesiredStatus(tracker_type) ==
    IF Lower(tracker_type) = ShortlistedLower THEN Shortlisted ELSE Rejected

\* the returned tuple, without excel_path
Returned(added, duplicate_reason, profile_remark, current_status) ==
    [added |-> added, duplicate_reason |-> duplicate_reason,
     profile_remark |-> profile_remark, current_status |-> current_status]

\* df.loc[i, c] = v; a column that is missing is created, NaN in the other rows
SetCell(df, i, c, v) ==
    LET d == IF HasCol(df, c) THEN df ELSE SetColumn(df, c, NaN)
    IN  [d EXCEPT !.rows[i][c] = v]

\* matching_idx of the admin override: by email, else (only when there is no
\* email) by name + phone; 0 stands for None
OverrideMatchingIdx(df, candidate_details) ==
    LET email_id_norm == NormSubmitted(DictGet(candidate_details, "Email_ID", <<>>))
        candidate_name_norm == NormSubmitted(DictGet(candidate_details, "Candidate_Name", <<>>))
        contact_number_norm ==
            NormSubmittedPhone(DictGet(candidate_details, "Contact_Number", <<>>))
        byEmail == SelectSeq(Indices(df), LAMBDA i :
                      NormStored(df.rows[i]["Email_ID"]) = email_id_norm)
        byPhone == NamePhoneMatches(df, candidate_name_norm, contact_number_norm)
    IN  IF email_id_norm # <<>> /\ HasCol(df, "Email_ID")
        THEN IF byEmail # <<>> THEN byEmail[1] ELSE 0
        ELSE IF byPhone # <<>> THEN byPhone[1] ELSE 0

\* the admin override's "Update existing row"
OverrideRow(df, i, a) ==
    LET d1 == SetCell(df, i, "Resume_Screening_Status", DesiredStatus(a.tracker_type))
        d2 == SetCell(d1, i, "Screening_Date", a.now)
        d3 == SetCell(d2, i, "Resume_Screening_Feedback", a.feedback)
        d4 == SetCell(d3, i, "Similarity_Score", a.similarity_score)
        d5 == SetCell(d4, i, "Average_Score", a.average_score)
    IN  IF Lower(a.tracker_type) = ShortlistedLower /\ a.cv_path # <<>>
        THEN SetCell(d5, i, "Shortlisted_CV_Path", a.cv_path)
        ELSE IF Lower(a.tracker_type) = RejectedLower
        THEN SetCell(d5, i, "Shortlisted_CV_Path", <<>>)
        ELSE d5

\* The first part of update_tracker_excel, up to "Candidate doesn't exist or is
\* being added for first time": the check, the block of a same-vendor
\* duplicate, the tag of a different-vendor duplicate and the admin override.
\* kind "return": the call returns ret; kind "updated": it writes file and
\* returns ret; kind "continue": it goes on to the append with
\* is_different_vendor_duplicate.
FirstComeFirstServe(f, a) ==
    LET chk == check_candidate_status_in_tracker(f, a.candidate_details, a.vendor_name)
        go(isDup) == [kind |-> "continue", is_different_vendor_duplicate |-> isDup,
                      ret |-> Returned(TRUE, <<>>, <<>>, NoneValue), file |-> f]
        df == ReadExcel(f)
        idx == OverrideMatchingIdx(df, a.candidate_details)
    IN  IF ~chk.exists THEN go(FALSE)
        ELSE IF EndsWith(chk.duplicate_reason, SameVendorSuffix)
        THEN [kind |-> "return", is_different_vendor_duplicate |-> FALSE,
              ret |-> Returned(FALSE, chk.duplicate_reason, chk.profile_remark,
                               chk.current_status),
              file |-> f]
        ELSE IF EndsWith(chk.duplicate_reason, DifferentVendorSuffix) THEN go(TRUE)
        ELSE IF ~a.allow_status_change
        THEN [kind |-> "return", is_different_vendor_duplicate |-> FALSE,
              ret |-> Returned(FALSE, AlreadyExists, chk.profile_remark, chk.current_status),
              file |-> f]
        ELSE IF f.state = "ok" /\ idx # 0
        THEN [kind |-> "updated", is_different_vendor_duplicate |-> FALSE,
              ret |-> Returned(TRUE, StatusUpdated, chk.profile_remark,
                               DesiredStatus(a.tracker_type)),
              file |-> ToExcel(OverrideRow(df, idx, a))]
        ELSE go(FALSE)

StatusOfUniqueRemark(df) ==
    [cols |-> df.cols,
     rows |-> [i \in 1..Len(df.rows) |->
                 IF NormStored(df.rows[i]["Profile_Remark"]) # DuplicateProfileLower
                 THEN [df.rows[i] EXCEPT !["Resume_Screening_Status"] = DuplicateProfile]
                 ELSE df.rows[i]]]

\* df.loc[remark.str.strip().str.lower() == 'duplicate profile',
\*        'Resume_Screening_Status'] = 'Duplicate Profile'
StatusOfDuplicateRemark(df) ==
    [cols |-> df.cols,
     rows |-> [i \in 1..Len(df.rows) |->
                 IF NormStored(df.rows[i]["Profile_Remark"]) = DuplicateProfileLower
                 THEN [df.rows[i] EXCEPT !["Resume_Screening_Status"] = DuplicateProfile]
                 ELSE df.rows[i]]]

\* the legacy column Date_Shortlisted becomes Screening_Date
RenameDateShortlisted(df) ==
    IF ~HasCol(df, "Date_Shortlisted") THEN df
    ELSE LET d1 == IF HasCol(df, "Screening_Date") THEN df
                   ELSE [cols |-> Append(df.cols, "Screening_Date"),
                         rows |-> [i \in 1..Len(df.rows) |->
                                     ("Screening_Date" :> df.rows[i]["Date_Shortlisted"])
                                         @@ df.rows[i]]]
         IN  Select(d1, Remove(d1.cols, "Date_Shortlisted"))

\* "Read tracker to check for duplicates": the table the append works on
LoadTracker(f) ==
    IF f.state # "ok" THEN EmptyFrame
    ELSE LET d1 == RenameDateShortlisted(ReadExcel(f))
             d2 == IF HasCol(d1, "Profile_Remark") /\ HasCol(d1, "Resume_Screening_Status")
                   THEN StatusOfDuplicateRemark(d1) ELSE d1
         IN  AddMissingColumns(d2, manual_columns, <<>>)

\* existing_vendor of matching_rows.iloc[0], for the different-vendor test
FirstIsOtherVendor(df, matching, vendor_name_norm) ==
    /\ vendor_name_norm # <<>>
    /\ ExistingVendor(df.rows[matching[1]]) # <<>>
    /\ vendor_name_norm # ExistingVendor(df.rows[matching[1]])

Blocked(df, i, key) ==
    [blocked |-> TRUE, profile_remark |-> UniqueProfile,
     ret |-> Returned(FALSE, key \o SameVendorSuffix,
                      RowGet(df, df.rows[i], "Profile_Remark", <<>>),
                      RowGet(df, df.rows[i], "Resume_Screening_Status", Unknown))]

Remark(r) == [blocked |-> FALSE, profile_remark |-> r,
              ret |-> Returned(TRUE, <<>>, r, NoneValue)]

\* "Check for duplicates (for same vendor blocking and different vendor
\* marking)": the second check, on the table loaded for the append
DuplicateRecheck(df, a) ==
    LET cd == a.candidate_details
        vendor_name_norm == NormVendor(a.vendor_name)
        email_id_norm == NormSubmitted(DictGet(cd, "Email_ID", <<>>))
        candidate_name_norm == NormSubmitted(DictGet(cd, "Candidate_Name", <<>>))
        contact_number_norm == NormSubmittedPhone(DictGet(cd, "Contact_Number", <<>>))
        byEmail == EmailMatches(df, email_id_norm)
        sameE == SameVendorRows(df, byEmail, vendor_name_norm)
        emailTagged == /\ byEmail # <<>> /\ HasCol(df, "Vendor_Name")
                       /\ FirstIsOtherVendor(df, byEmail, vendor_name_norm)
        byPhone == NamePhoneMatches(df, candidate_name_norm, contact_number_norm)
        sameP == SameVendorRows(df, byPhone, vendor_name_norm)
        phoneTagged == /\ byPhone # <<>> /\ HasCol(df, "Vendor_Name")
                       /\ FirstIsOtherVendor(df, byPhone, vendor_name_norm)
        byName == NameMatches(df, candidate_name_norm, contact_number_norm, vendor_name_norm)
        sameN == SameVendorRows(df, byName, vendor_name_norm)
    IN  IF IsEmpty(df) THEN Remark(UniqueProfile)
        ELSE IF sameE # <<>> THEN Blocked(df, sameE[1], EmailKey)
        ELSE IF emailTagged THEN Remark(DuplicateProfile)
        ELSE IF sameP # <<>> THEN Blocked(df, sameP[1], NameAndPhoneKey)
        ELSE IF phoneTagged THEN Remark(DuplicateProfile)
        ELSE IF sameN # <<>> THEN Blocked(df, sameN[1], NameAndVendorKey)
        ELSE Remark(UniqueProfile)

\* for k in keys: d[k] = val[k]; a key the dict has keeps its place, a new
\* one goes to the end
DictUpdate(d, keys, val) ==
    LET had == DOMAIN d.val
        set == Range(keys)
    IN  [keys |-> d.keys \o SelectSeq(keys, LAMBDA k : k \notin had),
         val |-> [k \in had \cup set |-> IF k \in set THEN val[k] ELSE d.val[k]]]

\* the keys that update_tracker_excel assigns before "Ensure Position exists",
\* in the order of the assignments
AssignedKeys ==
    <<"Vendor_Name", "Profile_Shared_Date", "Profile_Remark", "Resume_Screening_Feedback",
      "Similarity_Score", "Average_Score", "Shortlisted_CV_Path", "Resume_Screening_Status",
      "Screening_Date">>

NewRowStatusAsScreened(profile_remark, tracker_type) == DesiredStatus(tracker_type)

\* "Update status based on tracker type, override if Duplicate Profile"
NewRowStatus(profile_remark, tracker_type) ==
    IF profile_remark = DuplicateProfile THEN DuplicateProfile
    ELSE DesiredStatus(tracker_type)

\* candidate_details after the assignments that precede "Add new candidate data"
RowDetails(a, profile_remark) ==
    LET c1 == DictUpdate(a.candidate_details, AssignedKeys,
                [k \in Range(AssignedKeys) |->
                   CASE k = "Vendor_Name" -> a.vendor_name
                     [] k = "Profile_Shared_Date" -> a.profile_shared_date
                     [] k = "Profile_Remark" -> profile_remark
                     [] k = "Resume_Screening_Feedback" -> a.feedback
                     [] k = "Similarity_Score" -> a.similarity_score
                     [] k = "Average_Score" -> a.average_score
                     [] k = "Shortlisted_CV_Path" ->
                          IF Lower(a.tracker_type) = ShortlistedLower THEN a.cv_path ELSE <<>>
                     [] k = "Resume_Screening_Status" ->
                          NewRowStatus(profile_remark, a.tracker_type)
                     [] OTHER -> a.now])
        c2 == IF "Position" \in DOMAIN c1.val THEN c1 ELSE DictSet(c1, "Position", NotFound)
    IN  DictUpdate(c2, manual_columns, [k \in Range(manual_columns) |-> <<>>])

ConcatOverLast(df, cd, new_cols) ==
    LET had == Range(df.cols)
        got == Range(new_cols)
        added == SelectSeq(new_cols, LAMBDA c : c \notin had)
        new == [c \in had \cup got |-> IF c \in got THEN DictGet(cd, c, <<>>) ELSE NaN]
    IN  [cols |-> df.cols \o added,
         rows |-> IF df.rows = <<>> THEN <<new>>
                  ELSE Append(SubSeq(df.rows, 1, Len(df.rows) - 1), new)]

\* pd.concat([df, new_row], ignore_index=True) for a one-row frame of the dict
\* cd on the columns new_cols
Concat(df, cd, new_cols) ==
    LET had == Range(df.cols)
        got == Range(new_cols)
        added == SelectSeq(new_cols, LAMBDA c : c \notin had)
        blank == [c \in Range(added) |-> NaN]
        old == IF added = <<>> THEN df.rows
               ELSE [i \in 1..Len(df.rows) |-> df.rows[i] @@ blank]
        new == [c \in had \cup got |-> IF c \in got THEN DictGet(cd, c, <<>>) ELSE NaN]
    IN  [cols |-> df.cols \o added, rows |-> Append(old, new)]

\* "Reorder columns ..." and the concat: the table with the new row
AppendRow(df, cd) ==
    IF ~IsEmpty(df)
    THEN LET existing0 == Without(df.cols, Range(first_columns))
             known == Range(df.cols) \cup Range(first_columns)
             new_cols == SelectSeq(cd.keys, LAMBDA k : k \notin known)
             existing_cols == existing0 \o new_cols
             d1 == AddMissingColumns(df, new_cols, <<>>)
             d2 == AddMissingColumns(d1, first_columns, <<>>)
             final_cols == first_columns \o existing_cols
         IN  Concat(Select(d2, final_cols), cd, final_cols)
    ELSE LET firsts == Range(first_columns)
             all_cols == first_columns \o SelectSeq(cd.keys, LAMBDA k : k \notin firsts)
         IN  Concat(df, cd, all_cols)

\* for i, col in enumerate(first_columns): cols.remove(col); cols.insert(i, col)
RECURSIVE FirstColumnsFirst(_, _)
FirstColumnsFirst(cols, i) ==
    IF i >= Len(first_columns) THEN cols
    ELSE LET col == first_columns[i + 1]
         IN  FirstColumnsFirst(IF col \in Range(cols)
                               THEN InsertAt(Remove(cols, col), i, col) ELSE cols,
                               i + 1)

\* "Ensure Position is after Email_ID (if both exist)"; email_idx and pos_idx
\* are the 0-based positions before the removal
PositionAfterEmail(cols) ==
    IF "Email_ID" \in Range(cols) /\ "Position" \in Range(cols)
    THEN LET email_idx == IndexOf(cols, "Email_ID") - 1
             pos_idx == IndexOf(cols, "Position") - 1
         IN  IF pos_idx # email_idx + 1
             THEN InsertAt(Remove(cols, "Position"), email_idx + 1, "Position")
             ELSE cols
    ELSE cols

ManualColumnsFirst(cols) == manual_columns \o Without(cols, Range(manual_columns))

\* "Ensure manual columns are at the end (in specified order)"
ManualColumnsLast(cols) == Without(cols, Range(manual_columns)) \o manual_columns

\* "Final column ordering"
FinalColumns(cols) == ManualColumnsLast(PositionAfterEmail(FirstColumnsFirst(cols, 0)))

AppendDecisionRecheckOnly(f2, a, is_different_vendor_duplicate) ==
    DuplicateRecheck(LoadTracker(f2), a)

\* The second part of update_tracker_excel, on the tracker file f2 as it is
\* when it is loaded for the append: blocked by the second check, or the
\* remark of the row to append
AppendDecision(f2, a, is_different_vendor_duplicate) ==
    IF is_different_vendor_duplicate THEN Remark(DuplicateProfile)
    ELSE DuplicateRecheck(LoadTracker(f2), a)

\* the table that update_tracker_excel writes: the loaded one, the new row,
\* the final column order
AppendedTable(f2, a, profile_remark) ==
    LET out == AppendRow(LoadTracker(f2), RowDetails(a, profile_remark))
    IN  Select(out, FinalColumns(out.cols))

\* what a call of update_tracker_excel on the file f comes to, and the tuple
\* it returns.  kind "return": blocked by the check; "updated": admin
\* override written; "blocked": blocked by the second check; "append": a row
\* is added
Outcome(f, a) ==
    LET fcfs == FirstComeFirstServe(f, a)
        dec == AppendDecision(f, a, fcfs.is_different_vendor_duplicate)
    IN  IF fcfs.kind # "continue"
        THEN [kind |-> fcfs.kind, ret |-> fcfs.ret, profile_remark |-> <<>>]
        ELSE IF dec.blocked
        THEN [kind |-> "blocked", ret |-> dec.ret, profile_remark |-> <<>>]
        ELSE [kind |-> "append", ret |-> dec.ret, profile_remark |-> dec.profile_remark]

FileAfterKeepsUnreadable(f, a, o) ==
    IF f.state # "ok" THEN f
    ELSE IF o.kind = "append" THEN ToExcel(AppendedTable(f, a, o.profile_remark))
    ELSE IF o.kind = "updated" THEN FirstComeFirstServe(f, a).file
    ELSE f

\* the tracker file after that call
FileAfter(f, a, o) ==
    IF o.kind = "append" THEN ToExcel(AppendedTable(f, a, o.profile_remark))
    ELSE IF o.kind = "updated" THEN FirstComeFirstServe(f, a).file
    ELSE f

\* update_tracker_excel run without interruption on the file f:
\* the file it leaves and the tuple it returns
update_tracker_excel(f, a) ==
    LET o == Outcome(f, a)
    IN  [file |-> FileAfter(f, a, o), ret |-> o.ret]

\* ------------------------------------------ update_cv_conversion_status

\* str(x).strip().lower() if x and str(x).strip().lower() not in
\* ['not found', '', 'nan', 'none'] else None; None is falsy
NormConverted(v) ==
    IF v = NoneValue \/ v = <<>> \/ Lower(Strip(Str(v))) \in StoredSentinels
    THEN <<>> ELSE Lower(Strip(Str(v)))

\* matching_idx: "Try email first", then "Try name + phone" when the email
\* found no row; 0 stands for None
ConversionMatchingIdx(df, candidate_email, candidate_name, contact_number) ==
    LET email_norm == NormConverted(candidate_email)
        byEmail == IF email_norm # <<>> /\ HasCol(df, "Email_ID")
                   THEN SelectSeq(Indices(df), LAMBDA i :
                           NormStored(df.rows[i]["Email_ID"]) = email_norm)
                   ELSE <<>>
        byPhone == NamePhoneMatches(df, NormConverted(candidate_name),
                                    StripPhoneChars(NormConverted(contact_number)))
    IN  IF byEmail # <<>> THEN byEmail[1]
        ELSE IF byPhone # <<>> THEN byPhone[1]
        ELSE 0

MarkConvertedOnly(df, i, converted_ppt_path) ==
    LET d1 == AddMissingColumns(df, <<"CV_Conversion_Status", "CV_Converted_Path">>, <<>>)
        d2 == SetCell(d1, i, "CV_Conversion_Status", Converted)
    IN  [cols |-> d2.cols, rows |-> <<d2.rows[i]>>]

\* the table with the row i marked as converted
MarkConverted(df, i, converted_ppt_path) ==
    LET d1 == AddMissingColumns(df, <<"CV_Conversion_Status", "CV_Converted_Path">>, <<>>)
        d2 == SetCell(d1, i, "CV_Conversion_Status", Converted)
    IN  IF converted_ppt_path # <<>>
        THEN SetCell(d2, i, "CV_Converted_Path", converted_ppt_path)
        ELSE d2

\* update_cv_conversion_status on the file f: the file it leaves and whether
\* it reports success
update_cv_conversion_status(f, candidate_email, candidate_name, contact_number, converted_ppt_path) ==
    LET df == ReadExcel(f)
        idx == ConversionMatchingIdx(df, candidate_email, candidate_name, contact_number)
    IN  IF ~Exists(f) \/ f.state = "corrupt" THEN [file |-> f, success |-> FALSE]
        ELSE IF IsEmpty(df) \/ idx = 0 THEN [file |-> f, success |-> FALSE]
        ELSE [file |-> ToExcel(MarkConverted(df, idx, converted_ppt_path)),
              success |-> TRUE]

\* ------------------------------------------------------------ the calls

\* the rows a call may leave in the tracker
MaxRows == 2

\* the order in which the screener's candidate_details holds its keys: the
\* extracted fields in the order of the extraction prompt, then Position
ScreenerKeys ==
    <<"Candidate_Name", "Contact_Number", "Email_ID", "Total_Experience",
      "Location", "Resume_Screening_Status", "Screening_Date", "Position">>

\* candidate_details with the given keys in the given order
DetailsIn(keys, name, phone, email) ==
    [keys |-> keys,
     val |-> [k \in Range(keys) |->
                CASE k = "Candidate_Name" -> name
                  [] k = "Contact_Number" -> phone
                  [] k = "Email_ID" -> email
                  [] k = "Total_Experience" -> <<"3", "y">>
                  [] k = "Location" -> NotFound
                  [] k = "Resume_Screening_Status" -> Shortlisted
                  [] k = "Screening_Date" -> <<"d", "0">>
                  [] OTHER -> <<"Q", "A">>]]

\* candidate_details as the screener passes it
Details(name, phone, email) == DetailsIn(ScreenerKeys, name, phone, email)

\* a candidate with every field, one that the first matches on name and
\* phone only, one that has a name only
Full == Details(<<"J", "o">>, <<"1", "-", "2">>, <<"a", "@", "x">>)
NoEmail == Details(<<"j", "o", " ">>, <<"(", "1", ")", "2">>, NotFound)
NameOnly == Details(<<"J", "o">>, <<>>, NotFound)

\* a second person, and two submissions without email that agree with Full on
\* the name only and on the phone only
Second == Details(<<"A", "l">>, NotFound, <<"b", "@", "x">>)
SameNameOnly == Details(<<"J", "O">>, <<"9">>, <<>>)
SamePhoneOnly == Details(<<"A", "l">>, <<"1", "2">>, NotFound)

Candidates == { Full, NoEmail, NameOnly }

Vendors == { <<"A", "v">>, <<"B">>, <<>> }

TrackerTypes == { ShortlistedLower, RejectedLower }

\* the arguments of one update_tracker_excel call
Args(cd, vendor, tracker_type, allow) ==
    [candidate_details |-> cd, vendor_name |-> vendor, tracker_type |-> tracker_type,
     feedback |-> IF tracker_type = ShortlistedLower THEN <<"o", "k">> ELSE <<"g", "a", "p">>,
     similarity_score |-> <<"0", ".", "8">>, average_score |-> <<"0", ".", "7">>,
     cv_path |-> IF tracker_type = ShortlistedLower THEN <<"/", "c", "v">> ELSE <<>>,
     profile_shared_date |-> <<>>, now |-> <<"d", "1">>,
     allow_status_change |-> allow]

\* file: the tracker workbook; last: the latest call that returned, with its
\* arguments and result; proc: the calls in progress, one per session
VARIABLES file, last, proc

vars == <<file, last, proc>>

\* the sessions that run the screener side by side
Procs == { "s1", "s2" }

NoCall == [op |-> "none"]

\* a session outside update_tracker_excel; args, ret and wrote hold at most
\* one element
Idle == [pc |-> "idle", args |-> <<>>, dup |-> FALSE, table |-> EmptyFrame,
         ret |-> <<>>, wrote |-> <<>>]

Init ==
    /\ file = MissingFile
    /\ last = NoCall
    /\ proc = [p \in Procs |-> Idle]

\* one call of update_tracker_excel, from its first line to its return
UpdateTrackerExcel(a) ==
    \E o \in {Outcome(file, a)} :
        /\ o.kind = "append" => Len(file.rows) < MaxRows
        /\ file' = FileAfter(file, a, o)
        /\ last' = [op |-> "update_tracker_excel", args |-> a, ret |-> o.ret]
        /\ UNCHANGED proc

\* one call of check_candidate_status_in_tracker, as the screener makes it
\* before it decides on the update
CheckCandidate(cd, v) ==
    /\ last' = [op |-> "check_candidate_status_in_tracker",
                args |-> [candidate_details |-> cd, vendor_name |-> v],
                ret |-> check_candidate_status_in_tracker(file, cd, v)]
    /\ UNCHANGED <<file, proc>>

\* one call of update_cv_conversion_status, as the converter makes it
UpdateCvConversionStatus(email, name, phone, path) ==
    \E o \in {update_cv_conversion_status(file, email, name, phone, path)} :
        /\ file' = o.file
        /\ last' = [op |-> "update_cv_conversion_status",
                    args |-> [candidate_email |-> email, candidate_name |-> name,
                              contact_number |-> phone, converted_ppt_path |-> path],
                    ret |-> [success |-> o.success]]
        /\ UNCHANGED proc

\* a user fills a manual column of a row of the workbook
UserFills(i, c, v) ==
    /\ file.state = "ok"
    /\ i \in 1..Len(file.rows)
    /\ c \in DOMAIN file.rows[i]
    /\ file' = [file EXCEPT !.rows[i][c] = v]
    /\ last' = [op |-> "user_fills", args |-> [row |-> i, column |-> c, value |-> v]]
    /\ UNCHANGED proc

\* ---- sequential screening without the admin override
Next ==
    \E cd \in Candidates, v \in Vendors, t \in TrackerTypes :
        UpdateTrackerExcel(Args(cd, v, t, FALSE))

Spec == Init /\ [][Next]_vars

\* ---- sequential screening with the admin override switched on or off
AdminCandidates == { Full, NoEmail }

AdminVendors == { <<"A", "v">>, <<"B">> }

NextAdmin ==
    \E cd \in AdminCandidates, v \in AdminVendors, t \in TrackerTypes, allow \in BOOLEAN :
        UpdateTrackerExcel(Args(cd, v, t, allow))

SpecAdmin == Init /\ [][NextAdmin]_vars

\* ---- the check on its own, on the trackers that updates leave
CheckCandidates == { Full, NoEmail, SameNameOnly, SamePhoneOnly }

CheckVendors == { <<"A", "v">>, <<"B">> }

NextCheck ==
    \/ \E cd \in CheckCandidates, v \in CheckVendors :
          UpdateTrackerExcel(Args(cd, v, ShortlistedLower, FALSE))
    \/ \E cd \in CheckCandidates, v \in CheckVendors : CheckCandidate(cd, v)

SpecCheck == Init /\ [][NextCheck]_vars

\* ---- appends to trackers of any column order
\* trackers of earlier versions and trackers whose columns were moved by
\* hand: without the vendor columns and with Date_Shortlisted; Position ahead
\* of Email_ID and the first columns not first; manual columns in the middle;
\* Email_ID behind Position and the other fields
LegacyColumns ==
    { <<"Candidate_Name", "Email_ID", "Contact_Number", "Position",
        "Resume_Screening_Status", "Date_Shortlisted">>,
      <<"Position", "Email_ID", "Candidate_Name", "Contact_Number", "Vendor_Name",
        "Profile_Remark", "Resume_Screening_Status", "Screening_Date">>,
      <<"Vendor_Name", "R1_Status", "Profile_Shared_Date", "Profile_Remark", "Email_ID",
        "CV_Converted_Path", "Candidate_Name", "Contact_Number", "Position",
        "Resume_Screening_Status">>,
      <<"Vendor_Name", "Profile_Shared_Date", "Profile_Remark", "Position",
        "Candidate_Name", "Contact_Number", "Resume_Screening_Status", "Email_ID">> }

\* the one row of such a tracker
LegacyRow(cols) ==
    [c \in Range(cols) |->
        CASE c = "Candidate_Name" -> <<"Z", "e", "d">>
          [] c = "Email_ID" -> <<"z", "@", "x">>
          [] c = "Contact_Number" -> <<"9">>
          [] c = "Position" -> <<"Q", "A">>
          [] c = "Vendor_Name" -> <<"C">>
          [] c = "Profile_Remark" -> UniqueProfile
          [] c = "Resume_Screening_Status" -> Shortlisted
          [] c \in {"Date_Shortlisted", "Screening_Date"} -> <<"d", "0">>
          [] OTHER -> <<>>]

LegacyFiles == { [state |-> "ok", cols |-> cols, rows |-> <<LegacyRow(cols)>>] :
                   cols \in LegacyColumns }

\* candidate_details whose keys come in another order than the screener's,
\* and without Position
KeyOrders ==
    { ScreenerKeys,
      <<"Position", "Email_ID", "Candidate_Name", "Contact_Number">>,
      <<"Position", "Candidate_Name", "Email_ID", "Contact_Number">>,
      <<"Email_ID", "Candidate_Name", "Contact_Number">> }

ColsCandidates ==
    { DetailsIn(keys, <<"J", "o">>, <<"1", "-", "2">>, <<"a", "@", "x">>) : keys \in KeyOrders }
    \cup { DetailsIn(keys, <<"A", "l">>, NotFound, <<"b", "@", "x">>) : keys \in KeyOrders }

InitCols ==
    /\ file \in {MissingFile} \cup LegacyFiles
    /\ last = NoCall
    /\ proc = [p \in Procs |-> Idle]

NextCols ==
    \E cd \in ColsCandidates, v \in { <<"A", "v">> } :
        UpdateTrackerExcel(Args(cd, v, ShortlistedLower, FALSE))

SpecCols == InitCols /\ [][NextCols]_vars

\* ---- sessions that screen side by side on one tracker
ConcCandidates == { Full, Second }

ConcVendors == { <<"A", "v">>, <<"B">> }

\* what to_excel leaves of the file f when it writes the table df
WrittenFileMerging(f, df) ==
    IF f.state = "ok" /\ df.rows # <<>>
    THEN ToExcel(Concat(Select(AddMissingColumns(ReadExcel(f), df.cols, NaN), df.cols),
                        [keys |-> df.cols, val |-> df.rows[Len(df.rows)]], df.cols))
    ELSE ToExcel(df)

\* df.to_excel(excel_path, index=False): the file is the table, whatever it held
WrittenFile(f, df) == ToExcel(df)

\* "FIRST-COME-FIRST-SERVE LOGIC": the session reads the tracker for the check
\* and returns, or goes on to the append
Check(p, a) ==
    /\ proc[p].pc = "idle"
    /\ \E c \in {FirstComeFirstServe(file, a)} :
        IF c.kind = "continue"
        THEN /\ proc' = [proc EXCEPT ![p] = [pc |-> "checked", args |-> <<a>>,
                                             dup |-> c.is_different_vendor_duplicate,
                                             table |-> EmptyFrame, ret |-> <<>>,
                                             wrote |-> <<>>]]
             /\ UNCHANGED <<file, last>>
        ELSE /\ proc' = [proc EXCEPT ![p] = [Idle EXCEPT !.ret = <<c.ret>>]]
             /\ file' = c.file
             /\ last' = [op |-> "update_tracker_excel", args |-> a, ret |-> c.ret]

\* "Read tracker to check for duplicates" up to the final column ordering: the
\* session reads the tracker again and returns blocked, or holds the table
\* with its new row
Load(p) ==
    /\ proc[p].pc = "checked"
    /\ \E a \in {proc[p].args[1]} :
       \E d \in {AppendDecision(file, a, proc[p].dup)} :
        IF d.blocked
        THEN /\ proc' = [proc EXCEPT ![p] = [Idle EXCEPT !.ret = <<d.ret>>]]
             /\ last' = [op |-> "update_tracker_excel", args |-> a, ret |-> d.ret]
             /\ UNCHANGED file
        ELSE /\ Len(file.rows) < MaxRows
             /\ proc' = [proc EXCEPT ![p] =
                            [@ EXCEPT !.pc = "loaded",
                                      !.table = AppendedTable(file, a, d.profile_remark),
                                      !.ret = <<d.ret>>]]
             /\ UNCHANGED <<file, last>>

\* "Save to Excel" and the return
Write(p) ==
    /\ proc[p].pc = "loaded"
    /\ file' = WrittenFile(file, proc[p].table)
    /\ proc' = [proc EXCEPT ![p] = [Idle EXCEPT !.ret = proc[p].ret,
                                                !.wrote = proc[p].args]]
    /\ last' = [op |-> "update_tracker_excel", args |-> proc[p].args[1],
                ret |-> proc[p].ret[1]]

NextConc ==
    \/ \E p \in Procs, cd \in ConcCandidates, v \in ConcVendors :
          Check(p, Args(cd, v, ShortlistedLower, FALSE))
    \/ \E p \in Procs : Load(p)
    \/ \E p \in Procs : Write(p)

SpecConc == Init /\ [][NextConc]_vars

\* ---- submissions that carry a name only, checked and stored
\* the name-only candidate, the same person written otherwise, and a
\* candidate with every field and the same name
NameOnlyAgain == Details(<<" ", "j", "O">>, NotFound, <<>>)

NameCandidates == { NameOnly, NameOnlyAgain }

\* the name-only candidate is stored by any vendor with either decision, the
\* full one by one vendor; both spellings are checked
NextName ==
    \/ \E v \in Vendors, t \in TrackerTypes : UpdateTrackerExcel(Args(NameOnly, v, t, FALSE))
    \/ UpdateTrackerExcel(Args(Full, <<"A", "v">>, ShortlistedLower, FALSE))
    \/ \E cd \in NameCandidates, v \in Vendors : CheckCandidate(cd, v)

SpecName == Init /\ [][NextName]_vars

\* ---- screening and conversion on one tracker
\* the converter passes the fields of a tracker row, None for a field that
\* is not there; an email that is stored, one that is not, none
ConvEmails == { <<"A", "@", "x", " ">>, <<"q", "@", "x">>, NoneValue }

\* name and phone, both or none
ConvNamePhones == { <<<<"J", "o">>, <<"1", " ", "2">>>>, <<NoneValue, NoneValue>> }

ConvPaths == { <<"/", "p">>, <<>> }

NextConv ==
    \/ \E cd \in AdminCandidates, v \in AdminVendors :
          UpdateTrackerExcel(Args(cd, v, ShortlistedLower, FALSE))
    \/ \E e \in ConvEmails, np \in ConvNamePhones, path \in ConvPaths :
          UpdateCvConversionStatus(e, np[1], np[2], path)

SpecConv == Init /\ [][NextConv]_vars

\* ---- screening and conversion on a tracker whose manual columns are filled
\* what a user writes into R1_Status: a result, or that there is none
ManualEntries == { <<"P", "a", "s", "s">>, <<"N", "/", "A">> }

NextManual ==
    \/ \E v \in AdminVendors : UpdateTrackerExcel(Args(Full, v, ShortlistedLower, FALSE))
    \/ \E e \in { <<"A", "@", "x", " ">>, NoneValue }, np \in ConvNamePhones,
          path \in ConvPaths :
          UpdateCvConversionStatus(e, np[1], np[2], path)
    \/ \E i \in 1..MaxRows, v \in ManualEntries : UserFills(i, "R1_Status", v)

SpecManual == Init /\ [][NextManual]_vars

\* ---- submissions whose email is a placeholder
\* what an extraction leaves for an email it did not find, and rows stored
\* with it
StoredSentinelCandidates ==
    { Details(<<"J", "o">>, <<"1", "-", "2">>, <<"N", "a", "N">>),
      Details(<<"J", "o">>, NotFound, <<"n", "o", "n", "e">>) }

\* the same placeholders written otherwise, no email, and nothing known
SentinelCandidates ==
    { Details(<<"j", "o">>, <<"1", "2">>, <<"n", "a", "n">>),
      Details(<<"J", "O">>, <<>>, <<"N", "O", "N", "E", " ">>),
      Details(<<"J", "o">>, <<"1", " ", "2">>, <<>>),
      Details(NotFound, NotFound, NotFound) }

NextSentinel ==
    \/ \E cd \in StoredSentinelCandidates, v \in AdminVendors :
          UpdateTrackerExcel(Args(cd, v, ShortlistedLower, FALSE))
    \/ \E cd \in SentinelCandidates, v \in AdminVendors : CheckCandidate(cd, v)

SpecSentinel == Init /\ [][NextSentinel]_vars

\* ---- screening on a tracker file that may be unreadable
\* the workbook is replaced by content that is no workbook
Damage ==
    /\ Exists(file)
    /\ file' = CorruptFile
    /\ last' = [op |-> "damage"]
    /\ UNCHANGED proc

NextBroken ==
    \/ \E cd \in AdminCandidates, v \in AdminVendors, t \in TrackerTypes :
          UpdateTrackerExcel(Args(cd, v, t, FALSE))
    \/ \E cd \in AdminCandidates, v \in AdminVendors : CheckCandidate(cd, v)
    \/ Damage

SpecBroken == Init /\ [][NextBroken]_vars

\* ---- the admin override on submissions that carry a name only
OverrideCandidates == { NameOnly, Full }

NextOverride ==
    \E cd \in OverrideCandidates, v \in AdminVendors, t \in TrackerTypes, allow \in BOOLEAN :
        UpdateTrackerExcel(Args(cd, v, t, allow))

SpecOverride == Init /\ [][NextOverride]_vars

\* ---- appends to trackers that have the columns of the contract
\* a tracker as update_tracker_excel writes it, and one to which a user has
\* added a column of notes
ConformantColumns ==
    { first_columns \o
        <<"Candidate_Name", "Contact_Number", "Email_ID", "Position", "Total_Experience",
          "Location", "Resume_Screening_Status", "Screening_Date",
          "Resume_Screening_Feedback", "Similarity_Score", "Average_Score",
          "Shortlisted_CV_Path">> \o manual_columns,
      first_columns \o
        <<"Notes", "Email_ID", "Position", "Candidate_Name", "Contact_Number",
          "Total_Experience", "Location", "Resume_Screening_Status", "Screening_Date",
          "Resume_Screening_Feedback", "Similarity_Score", "Average_Score",
          "Shortlisted_CV_Path">> \o manual_columns }

ConformantFiles == { [state |-> "ok", cols |-> cols, rows |-> <<LegacyRow(cols)>>] :
                       cols \in ConformantColumns }

InitSchema ==
    /\ file \in {MissingFile} \cup ConformantFiles
    /\ last = NoCall
    /\ proc = [p \in Procs |-> Idle]

NextSchema ==
    \E cd \in ColsCandidates, v \in { <<"A", "v">> } :
        UpdateTrackerExcel(Args(cd, v, ShortlistedLower, FALSE))

SpecSchema == InitSchema /\ [][NextSchema]_vars

\* ------------------------------------------------------------ properties

IsUpdate(l) == l.op = "update_tracker_excel"

IsCheck(l) == l.op = "check_candidate_status_in_tracker"

\* the normalized identity fields of a submission, and of a stored row
EmailOf(cd) == NormSubmitted(DictGet(cd, "Email_ID", <<>>))
NameOf(cd) == NormSubmitted(DictGet(cd, "Candidate_Name", <<>>))
PhoneOf(cd) == NormSubmittedPhone(DictGet(cd, "Contact_Number", <<>>))
RowEmail(row) == NormStored(row["Email_ID"])
RowName(row) == NormStored(row["Candidate_Name"])
RowPhone(row) == NormStoredPhone(row["Contact_Number"])
RowStatus(row) == row["Resume_Screening_Status"]

\* the i-th stored row as it is read from the file
StoredRow(f, i) == [c \in DOMAIN f.rows[i] |-> ReadCell(f.rows[i][c])]

\* a normalized value that is no sentinel
Valid(n) == n \notin StoredSentinels

HasEmail(cd) == Valid(EmailOf(cd))
HasNamePhone(cd) == Valid(NameOf(cd)) /\ Valid(PhoneOf(cd))

\* valid email, or name + phone, or name + vendor
UsableKey(cd, v) ==
    HasEmail(cd) \/ HasNamePhone(cd) \/ (Valid(NameOf(cd)) /\ NormVendor(v) # <<>>)

\* the row carries the identity of the submission: its email if it has one,
\* else its name and phone, else its name on a row without email and phone
SameIdentity(row, cd) ==
    IF HasEmail(cd) THEN RowEmail(row) = EmailOf(cd)
    ELSE IF HasNamePhone(cd) THEN RowName(row) = NameOf(cd) /\ RowPhone(row) = PhoneOf(cd)
    ELSE /\ Valid(NameOf(cd)) /\ RowName(row) = NameOf(cd)
         /\ ~Valid(RowEmail(row)) /\ ~Valid(RowPhone(row))

\* the stored rows of that identity, and those of them from the vendor v
IdentityRows(f, cd) ==
    { i \in 1..Len(f.rows) : SameIdentity(StoredRow(f, i), cd) }

VendorRows(f, cd, v) ==
    { i \in IdentityRows(f, cd) : ExistingVendor(StoredRow(f, i)) = NormVendor(v) }

\* two stored rows without email and phone that have the same valid name
NameOnlyPair(r1, r2) ==
    /\ Valid(RowName(r1)) /\ RowName(r1) = RowName(r2)
    /\ ~Valid(RowEmail(r1)) /\ ~Valid(RowEmail(r2))
    /\ ~Valid(RowPhone(r1)) /\ ~Valid(RowPhone(r2))

\* two stored rows of one identity: the same valid email, or the same valid
\* name and phone, or the same valid name when neither has email or phone
SameIdentityRows(r1, r2) ==
    \/ Valid(RowEmail(r1)) /\ RowEmail(r1) = RowEmail(r2)
    \/ /\ Valid(RowName(r1)) /\ Valid(RowPhone(r1))
       /\ RowName(r1) = RowName(r2) /\ RowPhone(r1) = RowPhone(r2)
    \/ NameOnlyPair(r1, r2)

FinalStatus(row) == RowStatus(row) \in {Shortlisted, Rejected}

\* the call that returns now repeats the call that returned before it and
\* stored a row
RepeatsStoringCall ==
    /\ IsUpdate(last) /\ IsUpdate(last')
    /\ last.ret.added
    /\ last'.args.candidate_details = last.args.candidate_details
    /\ last'.args.vendor_name = last.args.vendor_name
    /\ ~last'.args.allow_status_change

\* the second of two equal calls is blocked as a same-vendor duplicate and
\* one row of the candidate from the vendor is stored
SecondCallBlocked ==
    /\ ~last'.ret.added
    /\ EndsWith(last'.ret.duplicate_reason, SameVendorSuffix)
    /\ file' = file
    /\ Cardinality(VendorRows(file', last'.args.candidate_details,
                              last'.args.vendor_name)) = 1

C2_OverrideInPlace ==
    [][ (/\ IsUpdate(last) /\ IsUpdate(last')
         /\ last.ret.added /\ last.ret.profile_remark = UniqueProfile
         /\ last.args.tracker_type = ShortlistedLower
         /\ last'.args.candidate_details = last.args.candidate_details
         /\ last'.args.vendor_name = last.args.vendor_name
         /\ last'.args.tracker_type = RejectedLower
         /\ last'.args.allow_status_change)
        => /\ last'.ret.added
           /\ last'.ret.duplicate_reason = StatusUpdated
           /\ Len(file'.rows) = Len(file.rows)
           /\ \A i \in VendorRows(file', last'.args.candidate_details,
                                  last'.args.vendor_name) :
                 /\ file'.rows[i]["Resume_Screening_Status"] = Rejected
                 /\ file'.rows[i]["Resume_Screening_Feedback"] = last'.args.feedback
                 /\ file'.rows[i]["Similarity_Score"] = last'.args.similarity_score
                 /\ file'.rows[i]["Average_Score"] = last'.args.average_score ]_vars

\* the call that returns now submits, from another vendor, the candidate that
\* the call before it stored as the only row of that identity
OtherVendorSubmits ==
    /\ IsUpdate(last) /\ IsUpdate(last')
    /\ last.ret.added
    /\ last'.args.candidate_details = last.args.candidate_details
    /\ NormVendor(last'.args.vendor_name) # NormVendor(last.args.vendor_name)
    /\ Cardinality(IdentityRows(file, last.args.candidate_details)) = 1

\* a second row is added for the candidate, remark and status Duplicate
\* Profile whatever the screening decision
AddedAsDuplicate ==
    /\ last'.ret.added
    /\ Len(file'.rows) = Len(file.rows) + 1
    /\ Cardinality(IdentityRows(file', last'.args.candidate_details)) = 2
    /\ file'.rows[Len(file'.rows)]["Profile_Remark"] = DuplicateProfile
    /\ file'.rows[Len(file'.rows)]["Resume_Screening_Status"] = DuplicateProfile
    /\ file'.rows[Len(file'.rows)]["Vendor_Name"] = last'.args.vendor_name

\* C3 as stated: after C is stored from vendor V1, a call for the same C from
\* a different vendor V2 adds a second row with Profile_Remark and
\* Resume_Screening_Status "Duplicate Profile", whatever the decision, and
\* the store holds two rows for C.
C3_FanOutAnyKey == [][ OtherVendorSubmits => AddedAsDuplicate ]_vars

\* C3 amended: the same when C has a valid email, or a valid name and phone.
C3_FanOut ==
    [][ (/\ OtherVendorSubmits
         /\ HasEmail(last'.args.candidate_details)
               \/ HasNamePhone(last'.args.candidate_details))
        => AddedAsDuplicate ]_vars

\* a candidate screened as shortlisted was stored as a duplicate of the row
\* of another vendor
C3_Witness ==
    /\ IsUpdate(last) /\ last.ret.added
    /\ last.args.tracker_type = ShortlistedLower
    /\ Len(file.rows) = 2
    /\ Cardinality(IdentityRows(file, last.args.candidate_details)) = 2
    /\ file.rows[2]["Resume_Screening_Status"] = DuplicateProfile
    /\ file.rows[2]["Profile_Remark"] = DuplicateProfile
    /\ ExistingVendor(file.rows[1]) # ExistingVendor(file.rows[2])

\* the pairs of stored rows of one identity and one vendor
SameIdentityAndVendor ==
    { p \in (1..Len(file.rows)) \X (1..Len(file.rows)) :
        /\ p[1] < p[2]
        /\ ExistingVendor(StoredRow(file, p[1])) = ExistingVendor(StoredRow(file, p[2]))
        /\ SameIdentityRows(StoredRow(file, p[1]), StoredRow(file, p[2])) }

BothFinal(p) == FinalStatus(file.rows[p[1]]) /\ FinalStatus(file.rows[p[2]])

\* C4 as stated: with allow_status_change=False, for every identity and every
\* vendor value, the empty one included, at most one stored row of that
\* identity and vendor has a final status (Shortlisted or Rejected).
C4_OneFinalRowAnyVendor == \A p \in SameIdentityAndVendor : ~BothFinal(p)

\* C4 amended: the same, but for an identity by name alone only under a
\* vendor value that is not empty.
C4_OneFinalRow ==
    \A p \in SameIdentityAndVendor :
        (\/ ExistingVendor(StoredRow(file, p[1])) # <<>>
         \/ ~NameOnlyPair(StoredRow(file, p[1]), StoredRow(file, p[2])))
        => ~BothFinal(p)

\* a second row of a stored identity and vendor is there, the first with a
\* final status and the second without
C4_Witness ==
    \E p \in SameIdentityAndVendor :
        FinalStatus(file.rows[p[1]]) /\ ~FinalStatus(file.rows[p[2]])

\* the session q writes its table, the session p has returned
Writes(q) == proc[q].pc = "loaded" /\ proc'[q].pc = "idle"

\* a row of the call with arguments a is in the file f
Holds(f, a) ==
    \E i \in 1..Len(f.rows) :
        /\ f.rows[i]["Email_ID"] = DictGet(a.candidate_details, "Email_ID", <<>>)
        /\ f.rows[i]["Candidate_Name"] = DictGet(a.candidate_details, "Candidate_Name", <<>>)
        /\ f.rows[i]["Vendor_Name"] = a.vendor_name

\* the call of p has persisted a row for a candidate other than that of q
\* after q loaded the tracker: the row is in the file and not in q's table
PersistedSinceLoad(p, q) ==
    /\ proc[p].wrote # <<>> /\ proc[p].ret[1].added
    /\ proc[p].wrote[1].candidate_details # proc[q].args[1].candidate_details
    /\ Holds(file, proc[p].wrote[1])
    /\ ~Holds(ToExcel(proc[q].table), proc[p].wrote[1])

\* C5: when two calls for different new candidates overlap, the second
\* loading the tracker before the first persists and persisting after it, the
\* store lacks the first caller's row although both calls returned added=True.
C5_LostUpdate ==
    [][ \A q \in Procs : \A p \in Procs \ {q} :
          (Writes(q) /\ PersistedSinceLoad(p, q))
          => /\ ~Holds(file', proc[p].wrote[1])
             /\ Holds(file', proc[q].args[1])
             /\ proc'[q].ret[1].added /\ proc'[p].ret[1].added ]_vars

\* both sessions have returned added=True for different candidates and the
\* file holds the row of one of them only
C5_Witness ==
    \E p \in Procs : \E q \in Procs \ {p} :
        /\ proc[p].pc = "idle" /\ proc[q].pc = "idle"
        /\ proc[p].wrote # <<>> /\ proc[q].wrote # <<>>
        /\ proc[p].ret[1].added /\ proc[q].ret[1].added
        /\ proc[p].wrote[1].candidate_details # proc[q].wrote[1].candidate_details
        /\ ~Holds(file, proc[p].wrote[1])
        /\ Holds(file, proc[q].wrote[1])
        /\ Len(file.rows) = 1

\* the row matches the submission in one of the tiers
Matches(row, cd) ==
    \/ HasEmail(cd) /\ RowEmail(row) = EmailOf(cd)
    \/ HasNamePhone(cd) /\ RowName(row) = NameOf(cd) /\ RowPhone(row) = PhoneOf(cd)
    \/ Valid(NameOf(cd)) /\ RowName(row) = NameOf(cd)

\* C6: when update_tracker_excel blocks a same-vendor duplicate with
\* allow_status_change=False it changes nothing in the store, returns
\* added=False, and the status it returns is the Resume_Screening_Status
\* stored on a matching row of the same vendor.
C6_BlockReportsStoredStatus ==
    [][ (/\ IsUpdate(last')
         /\ ~last'.args.allow_status_change
         /\ EndsWith(last'.ret.duplicate_reason, SameVendorSuffix))
        => /\ file' = file
           /\ ~last'.ret.added
           /\ \E i \in 1..Len(file.rows) :
                 /\ Matches(StoredRow(file, i), last'.args.candidate_details)
                 /\ ExistingVendor(StoredRow(file, i)) = NormVendor(last'.args.vendor_name)
                 /\ StoredRow(file, i)["Resume_Screening_Status"]
                        = last'.ret.current_status ]_vars

\* a block whose matching rows are one of another vendor, Shortlisted, and
\* then one of the submitting vendor, Duplicate Profile, which is reported
C6_Witness ==
    /\ IsUpdate(last) /\ ~last.ret.added
    /\ EndsWith(last.ret.duplicate_reason, SameVendorSuffix)
    /\ Len(file.rows) = 2
    /\ Matches(file.rows[1], last.args.candidate_details)
    /\ ExistingVendor(file.rows[1]) # NormVendor(last.args.vendor_name)
    /\ ExistingVendor(file.rows[2]) = NormVendor(last.args.vendor_name)
    /\ file.rows[1]["Resume_Screening_Status"] = Shortlisted
    /\ last.ret.current_status = DuplicateProfile

\* C7: with allow_status_change=False no call changes the
\* Resume_Screening_Status of a row that is stored: every row is in the next
\* store at its place with its status.
C7_StatusNeverChanges ==
    [][ (IsUpdate(last') /\ ~last'.args.allow_status_change)
        => \A i \in 1..Len(file.rows) :
              /\ i <= Len(file'.rows)
              /\ file'.rows[i]["Resume_Screening_Status"]
                     = file.rows[i]["Resume_Screening_Status"] ]_vars

\* a row was added behind a Shortlisted row by a call screened as rejected
C7_Witness ==
    /\ IsUpdate(last) /\ last.ret.added
    /\ last.args.tracker_type = RejectedLower
    /\ Len(file.rows) = 2
    /\ file.rows[1]["Resume_Screening_Status"] = Shortlisted

\* the call that returns now has appended a row
Appends == IsUpdate(last') /\ last'.ret.added /\ Len(file'.rows) = Len(file.rows) + 1

StartsWith(s, prefix) == Len(s) >= Len(prefix) /\ SubSeq(s, 1, Len(prefix)) = prefix

\* C8: after a call that adds a row, the columns of the store start with
\* Vendor_Name, Profile_Shared_Date, Profile_Remark in this order and end with
\* the ten manual columns in their order, whatever the order of the columns
\* before.
C8_FirstAndManualColumns ==
    [][ Appends => /\ StartsWith(file'.cols, first_columns)
                   /\ EndsWith(file'.cols, manual_columns) ]_vars

\* a row was added to a tracker that had no vendor columns, or had them or a
\* manual column elsewhere, from details whose keys start with Position
C8_Witness ==
    /\ IsUpdate(last) /\ last.ret.added
    /\ Len(file.rows) = 2
    /\ file.rows[1]["Email_ID"] = <<"z", "@", "x">>
    /\ last.args.candidate_details.keys[1] = "Position"
    /\ StartsWith(file.cols, first_columns)
    /\ EndsWith(file.cols, manual_columns)

\* C9: after a call that adds a row, Position is the column right behind
\* Email_ID whenever both exist, also when Position came before Email_ID in
\* the column list that the call assembled.
C9_PositionAfterEmail ==
    [][ (/\ Appends
         /\ "Email_ID" \in Range(file'.cols) /\ "Position" \in Range(file'.cols))
        => IndexOf(file'.cols, "Position") = IndexOf(file'.cols, "Email_ID") + 1 ]_vars

\* the submission has no email: the field is empty or "Not Found"
EmailUnknown(cd) == Strip(DictGet(cd, "Email_ID", <<>>)) \in {<<>>, NotFound}

\* a stored row has the valid name and the valid phone of the submission
NameAndPhoneStored(f, cd) ==
    /\ HasNamePhone(cd)
    /\ \E i \in 1..Len(f.rows) :
          /\ RowName(StoredRow(f, i)) = NameOf(cd)
          /\ RowPhone(StoredRow(f, i)) = PhoneOf(cd)

NameAndPhoneReasons ==
    { NameAndPhoneKey \o SameVendorSuffix, NameAndPhoneKey \o DifferentVendorSuffix }

\* C10: a submission without email whose normalized name and phone are those
\* of a stored row is reported by check_candidate_status_in_tracker as
\* existing, with a reason of the name + phone tier; one that agrees with a
\* stored row on the name only or on the phone only is no match of that tier.
C10_NameAndPhoneTier ==
    (IsCheck(last) /\ EmailUnknown(last.args.candidate_details))
    => IF NameAndPhoneStored(file, last.args.candidate_details)
       THEN last.ret.exists /\ last.ret.duplicate_reason \in NameAndPhoneReasons
       ELSE last.ret.duplicate_reason \notin NameAndPhoneReasons

\* a check of a submission without email that found a row by name and phone,
\* the email of the row being another
C10_Witness ==
    /\ IsCheck(last) /\ EmailUnknown(last.args.candidate_details)
    /\ last.ret.exists
    /\ last.ret.duplicate_reason \in NameAndPhoneReasons
    /\ \E i \in 1..Len(file.rows) :
          /\ RowName(file.rows[i]) = NameOf(last.args.candidate_details)
          /\ Valid(RowEmail(file.rows[i]))

\* the submission has no phone, and it has a valid name and neither email nor phone
PhoneUnknown(cd) == PhoneOf(cd) = <<>>

NameOnlySubmission(cd) == EmailUnknown(cd) /\ PhoneUnknown(cd) /\ Valid(NameOf(cd))

\* the stored rows with the name of the submission, and those of the vendor v
SameNameRows(f, cd) == { i \in 1..Len(f.rows) : RowName(StoredRow(f, i)) = NameOf(cd) }

SameNameVendorRows(f, cd, v) ==
    { i \in SameNameRows(f, cd) : ExistingVendor(StoredRow(f, i)) = NormVendor(v) }

\* C11: a submission with unknown email and phone, a known name and a
\* non-empty vendor is a same-vendor duplicate whenever a stored row has its
\* normalized name and vendor: the check returns exists=True with reason
\* name_and_vendor_same_vendor, and update_tracker_excel blocks it with that
\* reason and stores nothing.
C11_NameVendorFallback ==
    [][ (/\ IsCheck(last') \/ IsUpdate(last')
         /\ NameOnlySubmission(last'.args.candidate_details)
         /\ NormVendor(last'.args.vendor_name) # <<>>
         /\ SameNameVendorRows(file, last'.args.candidate_details,
                               last'.args.vendor_name) # {})
        => /\ file' = file
           /\ last'.ret.duplicate_reason = NameAndVendorKey \o SameVendorSuffix
           /\ IsCheck(last') => last'.ret.exists
           /\ IsUpdate(last') => ~last'.ret.added ]_vars

\* a check that found the name-only submission under a name that is written
\* otherwise in the stored row
C11_Witness ==
    /\ IsCheck(last) /\ last.ret.exists
    /\ last.ret.duplicate_reason = NameAndVendorKey \o SameVendorSuffix
    /\ last.args.candidate_details = NameOnlyAgain
    /\ \E i \in SameNameVendorRows(file, NameOnlyAgain, last.args.vendor_name) :
          file.rows[i]["Candidate_Name"] # <<" ", "j", "O">>

\* C12: a submission with unknown email and phone whose name is that of
\* stored rows, none of them of the submitting vendor, is Unique: the check
\* returns exists=False, and update_tracker_excel appends it with remark
\* Unique Profile and the requested decision as status.
C12_NameOtherVendorUnique ==
    [][ (/\ IsCheck(last') \/ IsUpdate(last')
         /\ NameOnlySubmission(last'.args.candidate_details)
         /\ SameNameRows(file, last'.args.candidate_details) # {}
         /\ SameNameVendorRows(file, last'.args.candidate_details,
                               last'.args.vendor_name) = {})
        => /\ IsCheck(last') => ~last'.ret.exists /\ file' = file
           /\ IsUpdate(last') =>
                 /\ last'.ret.added
                 /\ Len(file'.rows) = Len(file.rows) + 1
                 /\ file'.rows[Len(file'.rows)]["Profile_Remark"] = UniqueProfile
                 /\ file'.rows[Len(file'.rows)]["Resume_Screening_Status"]
                        = DesiredStatus(last'.args.tracker_type) ]_vars

\* a name-only submission screened as rejected was stored as Unique behind a
\* row of the same name from another vendor
C12_Witness ==
    /\ IsUpdate(last) /\ last.ret.added
    /\ NameOnlySubmission(last.args.candidate_details)
    /\ last.args.tracker_type = RejectedLower
    /\ Len(file.rows) = 2
    /\ RowName(file.rows[1]) = NameOf(last.args.candidate_details)
    /\ ExistingVendor(file.rows[1]) # <<>>
    /\ ExistingVendor(file.rows[1]) # ExistingVendor(file.rows[2])
    /\ file.rows[2]["Profile_Remark"] = UniqueProfile
    /\ file.rows[2]["Resume_Screening_Status"] = Rejected

\* the stored rows with a valid email, by remark
RowsWithEmail(e, remark) ==
    { i \in 1..Len(file.rows) :
        RowEmail(StoredRow(file, i)) = e /\ file.rows[i]["Profile_Remark"] = remark }

StoredEmails == { RowEmail(StoredRow(file, i)) : i \in 1..Len(file.rows) } \ StoredSentinels

\* C13: in every store reached from the empty one by sequential
\* update_tracker_excel calls, among the rows of one valid normalized email at
\* most one has the remark Unique Profile, and it was stored before every
\* Duplicate Profile row of that email.
C13_UniqueBeforeDuplicates ==
    \A e \in StoredEmails :
        /\ Cardinality(RowsWithEmail(e, UniqueProfile)) <= 1
        /\ \A u \in RowsWithEmail(e, UniqueProfile) :
              \A d \in RowsWithEmail(e, DuplicateProfile) : u < d

\* a Unique Profile row and behind it a Duplicate Profile row of its email
C13_Witness ==
    \E e \in StoredEmails :
        /\ RowsWithEmail(e, UniqueProfile) = {1}
        /\ RowsWithEmail(e, DuplicateProfile) = {2}

\* the rows that the file held are in the next file, all their cells kept
RowsKept(cols) ==
    /\ Len(file'.rows) >= Len(file.rows)
    /\ \A i \in 1..Len(file.rows) :
          \A c \in cols \cap DOMAIN file.rows[i] :
              c \in DOMAIN file'.rows[i] /\ file'.rows[i][c] = file.rows[i][c]

\* C14: a submission that no tier matches with a stored row is appended by
\* update_tracker_excel as one new row with remark Unique Profile and the
\* requested decision as status (Shortlisted for "shortlisted", Rejected
\* otherwise); the call returns added=True and an empty reason.
C14_UniqueAppended ==
    [][ (/\ IsUpdate(last')
         /\ ~check_candidate_status_in_tracker(file, last'.args.candidate_details,
                                               last'.args.vendor_name).exists)
        => /\ last'.ret.added
           /\ last'.ret.duplicate_reason = <<>>
           /\ Len(file'.rows) = Len(file.rows) + 1
           /\ RowsKept({"Email_ID", "Candidate_Name", "Vendor_Name"})
           /\ file'.rows[Len(file'.rows)]["Profile_Remark"] = UniqueProfile
           /\ file'.rows[Len(file'.rows)]["Resume_Screening_Status"]
                  = IF last'.args.tracker_type = ShortlistedLower
                    THEN Shortlisted ELSE Rejected ]_vars

\* a submission screened as rejected that matched no stored row was stored
\* behind another one, as Unique Profile and Rejected
C14_Witness ==
    /\ IsUpdate(last) /\ last.ret.added /\ last.ret.duplicate_reason = <<>>
    /\ last.args.tracker_type = RejectedLower
    /\ Len(file.rows) = 2
    /\ HasNamePhone(last.args.candidate_details)
    /\ file.rows[1]["Profile_Remark"] = UniqueProfile
    /\ file.rows[2]["Profile_Remark"] = UniqueProfile
    /\ file.rows[2]["Resume_Screening_Status"] = Rejected

\* identity, vendor, remark, status, feedback and scores of a row
RecordColumns ==
    {"Email_ID", "Candidate_Name", "Contact_Number", "Vendor_Name", "Profile_Remark",
     "Resume_Screening_Status", "Resume_Screening_Feedback", "Similarity_Score",
     "Average_Score"}

\* C15: the call that appends a different-vendor duplicate overwrites no
\* record: the store is then the rows it held, with identity, vendor, remark,
\* status, feedback and scores as they were, and one new row behind them.
C15_DuplicateAppended ==
    [][ (/\ IsUpdate(last') /\ last'.ret.added
         /\ last'.ret.profile_remark = DuplicateProfile)
        => /\ Len(file'.rows) = Len(file.rows) + 1
           /\ RowsKept(RecordColumns)
           /\ file'.rows[Len(file'.rows)]["Profile_Remark"] = DuplicateProfile ]_vars

\* a duplicate of another vendor was appended behind the row it matches
C15_Witness ==
    /\ IsUpdate(last) /\ last.ret.added
    /\ last.ret.profile_remark = DuplicateProfile
    /\ Len(file.rows) = 2
    /\ Matches(file.rows[1], last.args.candidate_details)
    /\ file.rows[1]["Profile_Remark"] = UniqueProfile
    /\ file.rows[2]["Vendor_Name"] = last.args.vendor_name

IsConversion(l) == l.op = "update_cv_conversion_status"

\* C16: no record is ever deleted: in any sequence of sequential
\* update_tracker_excel and update_cv_conversion_status calls every row that
\* the store held before a call is in it after the call, so the number of
\* rows never goes down.
C16_NoRowDeleted ==
    [][ (IsUpdate(last') \/ IsConversion(last'))
        => RowsKept({"Email_ID", "Candidate_Name", "Contact_Number", "Vendor_Name",
                     "Profile_Remark"}) ]_vars

\* a conversion was recorded on a tracker of two rows, and both are there
C16_Witness ==
    /\ IsConversion(last) /\ last.ret.success
    /\ Len(file.rows) = 2
    /\ \E i \in 1..2 : file.rows[i]["CV_Conversion_Status"] = Converted
    /\ file.rows[1]["Vendor_Name"] # file.rows[2]["Vendor_Name"]

\* the rows that a conversion call finds by email, and by name and phone
ConversionEmailRows(f, a) ==
    { i \in 1..Len(f.rows) :
        /\ NormConverted(a.candidate_email) # <<>>
        /\ RowEmail(StoredRow(f, i)) = NormConverted(a.candidate_email) }

ConversionPhoneRows(f, a) ==
    { i \in 1..Len(f.rows) :
        /\ NormConverted(a.candidate_name) # <<>>
        /\ NormConverted(a.contact_number) # <<>>
        /\ RowName(StoredRow(f, i)) = NormConverted(a.candidate_name)
        /\ RowPhone(StoredRow(f, i)) = StripPhoneChars(NormConverted(a.contact_number)) }

\* the rows among which the call has to find its one row: those of the email,
\* and those of name and phone only when there are none of the email
ConversionRows(f, a) ==
    IF ConversionEmailRows(f, a) # {} THEN ConversionEmailRows(f, a)
    ELSE ConversionPhoneRows(f, a)

\* the file after the call differs from the file before it in the
\* conversion cells of the row i only
OnlyConversionOf(i, a) ==
    /\ file'.cols = file.cols
    /\ Len(file'.rows) = Len(file.rows)
    /\ \A j \in 1..Len(file.rows) : \A c \in DOMAIN file.rows[j] :
          \/ file'.rows[j][c] = file.rows[j][c]
          \/ /\ j = i /\ c = "CV_Conversion_Status"
          \/ /\ j = i /\ c = "CV_Converted_Path" /\ a.converted_ppt_path # <<>>
    /\ file'.rows[i]["CV_Conversion_Status"] = Converted
    /\ a.converted_ppt_path # <<>>
          => file'.rows[i]["CV_Converted_Path"] = a.converted_ppt_path

\* C17: update_cv_conversion_status creates no record and touches one: a
\* successful call keeps the number of rows and changes only
\* CV_Conversion_Status (and CV_Converted_Path when a path is given) of one
\* row, found by email first and by name and phone only when the email finds
\* no row; when no row matches it returns success=False and the store is
\* unchanged.
C17_ConversionTouchesOneRow ==
    [][ IsConversion(last')
        => IF ConversionRows(file, last'.args) = {}
           THEN ~last'.ret.success /\ file' = file
           ELSE /\ last'.ret.success
                /\ \E i \in ConversionRows(file, last'.args) :
                      OnlyConversionOf(i, last'.args) ]_vars

\* C18: manual fields are opaque to submissions: every row that
\* update_tracker_excel appends has the ten manual columns empty, and no
\* update_tracker_excel call, whether it appends, tags a duplicate or blocks,
\* changes a manual column of a row that was stored.
C18_ManualFieldsKept ==
    [][ IsUpdate(last')
        => /\ \A i \in 1..Len(file.rows) : \A c \in Range(manual_columns) :
                 /\ i <= Len(file'.rows)
                 /\ file'.rows[i][c] = file.rows[i][c]
           /\ last'.ret.added =>
                 \A c \in Range(manual_columns) : file'.rows[Len(file'.rows)][c] = <<>> ]_vars

\* the stored rows that a submission matches by email, and by name and phone
EmailRows(f, cd) ==
    { i \in 1..Len(f.rows) : HasEmail(cd) /\ RowEmail(StoredRow(f, i)) = EmailOf(cd) }

NamePhoneRows(f, cd) ==
    { i \in 1..Len(f.rows) :
        /\ HasNamePhone(cd)
        /\ RowName(StoredRow(f, i)) = NameOf(cd)
        /\ RowPhone(StoredRow(f, i)) = PhoneOf(cd) }

\* the rows matched by the winning tier: the first tier, in the order email,
\* name + phone, name + vendor, that matches a row
WinningRows(f, cd, v) ==
    IF EmailRows(f, cd) # {} THEN EmailRows(f, cd)
    ELSE IF NamePhoneRows(f, cd) # {} THEN NamePhoneRows(f, cd)
    ELSE IF Valid(NameOf(cd)) /\ PhoneUnknown(cd) /\ NormVendor(v) # <<>>
    THEN SameNameRows(f, cd)
    ELSE {}

\* those of the rows in set that are of the vendor v
OfVendor(f, set, v) == { i \in set : ExistingVendor(StoredRow(f, i)) = NormVendor(v) }

\* C19: when the rows matched by the winning tier include a row of the
\* non-empty submitting vendor, check_candidate_status_in_tracker returns a
\* reason ending in _same_vendor and the status of a row of that vendor,
\* wherever that row is among the matches.
C19_SameVendorWins ==
    (/\ IsCheck(last)
     /\ NormVendor(last.args.vendor_name) # <<>>
     /\ OfVendor(file, WinningRows(file, last.args.candidate_details, last.args.vendor_name),
                 last.args.vendor_name) # {})
    => /\ last.ret.exists
       /\ EndsWith(last.ret.duplicate_reason, SameVendorSuffix)
       /\ \E i \in OfVendor(file, WinningRows(file, last.args.candidate_details,
                                              last.args.vendor_name),
                            last.args.vendor_name) :
             StoredRow(file, i)["Resume_Screening_Status"] = last.ret.current_status

\* a check whose first matched row is of another vendor and Shortlisted, the
\* second of the submitting vendor, whose status is returned
C19_Witness ==
    /\ IsCheck(last)
    /\ EndsWith(last.ret.duplicate_reason, SameVendorSuffix)
    /\ WinningRows(file, last.args.candidate_details, last.args.vendor_name) = {1, 2}
    /\ OfVendor(file, {1, 2}, last.args.vendor_name) = {2}
    /\ file.rows[1]["Resume_Screening_Status"] = Shortlisted
    /\ last.ret.current_status = DuplicateProfile

\* C20: if the valid email of the submission is that of a stored row, the
\* result of check_candidate_status_in_tracker is decided by the rows of that
\* email alone: email_same_vendor if one of them is of the submitting vendor,
\* else email_different_vendor, also when a row matched by name and phone is
\* of the submitting vendor.
C20_EmailTierDecides ==
    (IsCheck(last) /\ EmailRows(file, last.args.candidate_details) # {})
    => /\ last.ret.exists
       /\ last.ret.duplicate_reason =
             IF /\ NormVendor(last.args.vendor_name) # <<>>
                /\ OfVendor(file, EmailRows(file, last.args.candidate_details),
                            last.args.vendor_name) # {}
             THEN EmailKey \o SameVendorSuffix
             ELSE EmailKey \o DifferentVendorSuffix
       /\ \E i \in EmailRows(file, last.args.candidate_details) :
             StoredRow(file, i)["Resume_Screening_Status"] = last.ret.current_status

\* a check that reports a different-vendor match by email although a row of
\* the same name and phone, without that email, is of the submitting vendor
C20_Witness ==
    /\ IsCheck(last)
    /\ last.ret.duplicate_reason = EmailKey \o DifferentVendorSuffix
    /\ OfVendor(file, NamePhoneRows(file, last.args.candidate_details)
                          \ EmailRows(file, last.args.candidate_details),
                last.args.vendor_name) # {}

\* the submission has a phone: the normalized number is not empty
PhoneKnown(cd) == PhoneOf(cd) # <<>>

\* C21: the name + vendor fallback is reached only when the phone of the
\* submission is unknown: a submission with a known phone that no stored row
\* matches by email or by name and phone is Unique, also when a stored row has
\* its name and its vendor: the check returns exists=False and
\* update_tracker_excel appends it with remark Unique Profile.
C21_FallbackNeedsNoPhone ==
    [][ (/\ IsCheck(last') \/ IsUpdate(last')
         /\ PhoneKnown(last'.args.candidate_details)
         /\ EmailRows(file, last'.args.candidate_details) = {}
         /\ NamePhoneRows(file, last'.args.candidate_details) = {})
        => /\ IsCheck(last') => ~last'.ret.exists /\ file' = file
           /\ IsUpdate(last') =>
                 /\ last'.ret.added
                 /\ last'.ret.profile_remark = UniqueProfile
                 /\ Len(file'.rows) = Len(file.rows) + 1
                 /\ file'.rows[Len(file'.rows)]["Profile_Remark"] = UniqueProfile ]_vars

\* a submission with a phone was stored as Unique behind a row of its name
\* and vendor that has another phone
C21_Witness ==
    /\ IsUpdate(last) /\ last.ret.added
    /\ PhoneKnown(last.args.candidate_details)
    /\ Len(file.rows) = 2
    /\ RowName(file.rows[1]) = NameOf(last.args.candidate_details)
    /\ ExistingVendor(file.rows[1]) = NormVendor(last.args.vendor_name)
    /\ ExistingVendor(file.rows[1]) # <<>>
    /\ RowPhone(file.rows[1]) # PhoneOf(last.args.candidate_details)
    /\ file.rows[2]["Profile_Remark"] = UniqueProfile

\* the email of the submission is empty or a sentinel, in any case
SentinelEmail(cd) == Lower(Strip(DictGet(cd, "Email_ID", <<>>))) \in StoredSentinels

EmailReasons == { EmailKey \o SameVendorSuffix, EmailKey \o DifferentVendorSuffix }

\* C22: a submission whose email is empty or one of the sentinels not found,
\* nan, none in any case is never matched by the email tier of
\* check_candidate_status_in_tracker, also when stored rows hold the same
\* sentinel; the result is that of the next tier that has data: name and
\* phone, else name and vendor when the phone is unknown, else not found; a
\* result is returned for every combination of unknown fields.
C22_SentinelsNeverMatch ==
    (IsCheck(last) /\ SentinelEmail(last.args.candidate_details))
    => /\ last.ret.exists \in BOOLEAN
       /\ last.ret.duplicate_reason \notin EmailReasons
       /\ IF NamePhoneRows(file, last.args.candidate_details) # {}
          THEN last.ret.exists /\ last.ret.duplicate_reason \in NameAndPhoneReasons
          ELSE IF /\ Valid(NameOf(last.args.candidate_details))
                  /\ PhoneUnknown(last.args.candidate_details)
                  /\ NormVendor(last.args.vendor_name) # <<>>
                  /\ SameNameVendorRows(file, last.args.candidate_details,
                                        last.args.vendor_name) # {}
          THEN /\ last.ret.exists
               /\ last.ret.duplicate_reason = NameAndVendorKey \o SameVendorSuffix
          ELSE ~last.ret.exists /\ last.ret.current_status = NoneValue

\* a check of a submission with the email nan found a row that holds nan as
\* its email, by name and phone
C22_Witness ==
    /\ IsCheck(last)
    /\ Lower(Strip(DictGet(last.args.candidate_details, "Email_ID", <<>>))) = NanLower
    /\ last.ret.duplicate_reason \in NameAndPhoneReasons
    /\ \E i \in NamePhoneRows(file, last.args.candidate_details) :
          RowEmail(StoredRow(file, i)) = NanLower

\* C23: when the tracker file is missing or cannot be parsed,
\* check_candidate_status_in_tracker returns exists=False, and
\* update_tracker_excel takes the store as empty: it appends the submission
\* as Unique Profile and returns added=True with no reason, and the store
\* after the call is the new row alone.
C23_SilentFallback ==
    [][ (file.state # "ok")
        => /\ IsCheck(last') =>
                 /\ ~last'.ret.exists /\ last'.ret.current_status = NoneValue
                 /\ file' = file
           /\ IsUpdate(last') =>
                 /\ last'.ret.added
                 /\ last'.ret.duplicate_reason = <<>>
                 /\ last'.ret.profile_remark = UniqueProfile
                 /\ file'.state = "ok"
                 /\ Len(file'.rows) = 1
                 /\ file'.rows[1]["Profile_Remark"] = UniqueProfile
                 /\ file'.rows[1]["Email_ID"]
                        = DictGet(last'.args.candidate_details, "Email_ID", <<>>)
                 /\ file'.rows[1]["Vendor_Name"] = last'.args.vendor_name ]_vars

\* a check on a file that cannot be parsed found nothing
C23_Witness ==
    /\ IsCheck(last) /\ file.state = "corrupt"
    /\ ~last.ret.exists

\* C24: with allow_status_change=True, when the same-vendor duplicate is
\* found through the name + vendor fallback and its row cannot be located
\* again by email or by name and phone, update_tracker_excel neither fails
\* nor blocks: it goes on to the append and adds a new row.
C24_OverrideFallsThrough ==
    [][ (/\ IsUpdate(last')
         /\ last'.args.allow_status_change
         /\ NameOnlySubmission(last'.args.candidate_details)
         /\ NormVendor(last'.args.vendor_name) # <<>>
         /\ SameNameVendorRows(file, last'.args.candidate_details,
                               last'.args.vendor_name) # {}
         /\ EmailRows(file, last'.args.candidate_details) = {}
         /\ NamePhoneRows(file, last'.args.candidate_details) = {})
        => /\ last'.ret.added
           /\ Len(file'.rows) = Len(file.rows) + 1 ]_vars

\* the columns conform to the contract: the three first columns first, the
\* ten manual columns last, no legacy date column, Position right behind
\* Email_ID when both are there
Conformant(cols) ==
    /\ StartsWith(cols, first_columns)
    /\ EndsWith(cols, manual_columns)
    /\ "Date_Shortlisted" \notin Range(cols)
    /\ ("Email_ID" \in Range(cols) /\ "Position" \in Range(cols))
          => IndexOf(cols, "Position") = IndexOf(cols, "Email_ID") + 1

\* every key of the row that the call builds is a column of the tracker
NoNewColumns(f, a) ==
    Range(RowDetails(a, UniqueProfile).keys) \subseteq Range(f.cols)

\* C25: schema enforcement is idempotent: on a table that conforms to the
\* column contract, the schema steps at load (rename of Date_Shortlisted,
\* missing manual columns) and the column ordering at persist of
\* update_tracker_excel leave the column list and the cells of the stored
\* rows as they are.
C25_SchemaIdempotent ==
    [][ (Appends /\ file.state = "ok" /\ Conformant(file.cols)
         /\ NoNewColumns(file, last'.args))
        => /\ file'.cols = file.cols
           /\ \A i \in 1..Len(file.rows) : file'.rows[i] = file.rows[i] ]_vars

\* a row was appended to a conformant tracker that has a column of notes
\* between the first columns and Email_ID, and the columns are as they were
C25_Witness ==
    /\ IsUpdate(last) /\ last.ret.added
    /\ Len(file.rows) = 2
    /\ file.cols \in ConformantColumns
    /\ "Notes" \in Range(file.cols)
    /\ file.rows[1]["Email_ID"] = <<"z", "@", "x">>

\* C26: under every interleaving of the three file accesses of concurrent
\* update_tracker_excel calls (the read of the check, the read before the
\* append, the write), the store never holds two rows with the same valid
\* email and the same non-empty vendor.
C26_NoSameVendorTwins ==
    \A i \in 1..Len(file.rows) : \A j \in (i + 1)..Len(file.rows) :
        ~(/\ Valid(RowEmail(StoredRow(file, i)))
          /\ RowEmail(StoredRow(file, i)) = RowEmail(StoredRow(file, j))
          /\ ExistingVendor(StoredRow(file, i)) # <<>>
          /\ ExistingVendor(StoredRow(file, i)) = ExistingVendor(StoredRow(file, j)))

\* how check_candidate_status_in_tracker classifies a submission, and how the
\* duplicate re-check of update_tracker_excel does
ClassOfCheck(chk) ==
    IF ~chk.exists THEN "unique"
    ELSE IF EndsWith(chk.duplicate_reason, SameVendorSuffix) THEN "blocked"
    ELSE "duplicate"

ClassOfRecheck(dec) ==
    IF dec.blocked THEN "blocked"
    ELSE IF dec.profile_remark = DuplicateProfile THEN "duplicate"
    ELSE "unique"

\* C27: the duplicate re-check inside update_tracker_excel agrees with
\* check_candidate_status_in_tracker: on every store and for every
\* submission, those with an empty vendor included, both classify the
\* submission alike as blocked same-vendor duplicate, as different-vendor
\* duplicate or as unique.
C27_RecheckAgreesWithCheck ==
    \A cd \in Candidates, v \in Vendors :
        ClassOfCheck(check_candidate_status_in_tracker(file, cd, v))
            = ClassOfRecheck(DuplicateRecheck(LoadTracker(file),
                                              Args(cd, v, ShortlistedLower, FALSE)))

\* C28: in every store reached from the empty one by update_tracker_excel
\* calls, with any value of allow_status_change, a row has the remark
\* Duplicate Profile if and only if its status is Duplicate Profile, and the
\* status of every row is Shortlisted, Rejected or Duplicate Profile.
C28_RemarkAndStatusAgree ==
    \A i \in 1..Len(file.rows) :
        /\ (file.rows[i]["Profile_Remark"] = DuplicateProfile)
              <=> (file.rows[i]["Resume_Screening_Status"] = DuplicateProfile)
        /\ file.rows[i]["Resume_Screening_Status"] \in {Shortlisted, Rejected, DuplicateProfile}

\* a call with allow_status_change=True, screened as shortlisted, stored a
\* Duplicate Profile row behind a Unique Profile row that is Rejected
C28_Witness ==
    /\ IsUpdate(last) /\ last.ret.added
    /\ last.args.allow_status_change
    /\ last.args.tracker_type = ShortlistedLower
    /\ Len(file.rows) = 2
    /\ file.rows[1]["Profile_Remark"] = UniqueProfile
    /\ file.rows[1]["Resume_Screening_Status"] = Rejected
    /\ file.rows[2]["Profile_Remark"] = DuplicateProfile
    /\ file.rows[2]["Resume_Screening_Status"] = DuplicateProfile

\* the rows of the store that the call has changed
ChangedRows == { i \in 1..Len(file.rows) : i > Len(file'.rows) \/ file'.rows[i] # file.rows[i] }

\* C29: what a sequential update_tracker_excel call returns tells what it did
\* to the store: added=False, the store is unchanged and the reason ends in
\* _same_vendor or is already_exists; added=True with an empty reason, the
\* number of rows grew by one; added=True with reason status_updated, the
\* number of rows is unchanged and one row changed.
C29_ReturnTellsEffect ==
    [][ IsUpdate(last')
        => /\ ~last'.ret.added =>
                 /\ file' = file
                 /\ \/ EndsWith(last'.ret.duplicate_reason, SameVendorSuffix)
                    \/ last'.ret.duplicate_reason = AlreadyExists
           /\ (last'.ret.added /\ last'.ret.duplicate_reason = <<>>) =>
                 Len(file'.rows) = Len(file.rows) + 1
           /\ (last'.ret.added /\ last'.ret.duplicate_reason = StatusUpdated) =>
                 /\ Len(file'.rows) = Len(file.rows)
                 /\ Cardinality(ChangedRows) = 1 ]_vars

\* a call with allow_status_change=True came back with added=False from a
\* store of two rows, after a call that had added the second
C29_Witness ==
    /\ IsUpdate(last) /\ ~last.ret.added
    /\ last.args.allow_status_change
    /\ EndsWith(last.ret.duplicate_reason, SameVendorSuffix)
    /\ Len(file.rows) = 2
    /\ file.rows[2]["Profile_Remark"] = DuplicateProfile

\* the submission comes without a vendor
HouseSubmission(a) == NormVendor(a.vendor_name) = <<>>

\* C30: a submission with an empty vendor_name is never a same-vendor
\* duplicate and never blocked: on every store
\* check_candidate_status_in_tracker returns exists=False or a reason ending
\* in _different_vendor, and every update_tracker_excel call for it adds a
\* row, so that n equal house submissions store n rows.
C30_HouseNeverBlocked ==
    [][ (IsUpdate(last') /\ HouseSubmission(last'.args))
        => /\ \/ ~check_candidate_status_in_tracker(file, last'.args.candidate_details,
                                                    last'.args.vendor_name).exists
              \/ EndsWith(check_candidate_status_in_tracker(
                              file, last'.args.candidate_details,
                              last'.args.vendor_name).duplicate_reason,
                          DifferentVendorSuffix)
           /\ last'.ret.added
           /\ Len(file'.rows) = Len(file.rows) + 1
           /\ file'.rows[Len(file'.rows)]["Vendor_Name"] = <<>> ]_vars

\* the same house submission was stored twice, the second time as a
\* duplicate found by email
C30_Witness ==
    /\ IsUpdate(last) /\ last.ret.added /\ HouseSubmission(last.args)
    /\ Len(file.rows) = 2
    /\ file.rows[1]["Vendor_Name"] = <<>> /\ file.rows[2]["Vendor_Name"] = <<>>
    /\ HasEmail(last.args.candidate_details)
    /\ \A i \in 1..2 : file.rows[i]["Email_ID"]
                           = DictGet(last.args.candidate_details, "Email_ID", <<>>)
    /\ file.rows[2]["Profile_Remark"] = DuplicateProfile

====
